---- MODULE Spec2Model ----
(***************************************************************************)
(* Model of the automation_alert scoring pipeline: the base scoring engine *)
(* (scoring_engine.py), the agentic layer (agentic_layer.py) and the       *)
(* Scorer orchestrator with its ingestion of LLM assessment records        *)
(* (scorer.py).                                                            *)
(*                                                                         *)
(* Numbers.  Python floats are modelled as exact fixed-point integers:     *)
(*   - a fraction (share, gain, discount, cap, rate) f is the integer      *)
(*     f * ONE; every input is drawn from a grid on which the products the *)
(*     code forms are exact multiples of 1/ONE;                            *)
(*   - a percentage p (the *_pct fields the code rounds to one decimal) is *)
(*     the integer number of tenths of a percent, 10 * p.                  *)
(* round(x, 1) is round-half-to-even on the exact value.                   *)
(***************************************************************************)
EXTENDS Integers, Sequences, FiniteSets, TLC

VARIABLES
    input,              \* engine harness: the call being made (op, args)
    output,             \* engine harness: what the call returned or raised
    pc,                 \* position of the running call / of score_occupation
    onet_data,          \* score_occupation: category -> number of raw items
    include_agentic,    \* score_occupation: the include_agentic argument
    cat_idx,            \* score_occupation: index into SCORABLE_CATEGORIES
    parsed,             \* what the last LLM response parsed to (scored_data /
                        \* agentic_data of the ingestion call made last)
    scored_items,       \* score_occupation: the current category's items
    agentic_scores,     \* score_occupation: the current category's agentic scores
    category_summaries, \* score_occupation: summaries built so far
    all_agentic_scores, \* score_occupation: item_name -> AgenticImpactScore
    llm_calls,          \* sequence of <<category, "base" | "agentic">> calls made
    raised,             \* the exception that left score_occupation, or "None"
    alert               \* the AutomationAlert returned, once built

vars == <<input, output, pc, onet_data, include_agentic, cat_idx, parsed,
          scored_items, agentic_scores, category_summaries, all_agentic_scores,
          llm_calls, raised, alert>>

scorerVars == <<onet_data, include_agentic, cat_idx, parsed, scored_items,
                agentic_scores, category_summaries, all_agentic_scores, llm_calls,
                raised, alert>>

-----------------------------------------------------------------------------
(* Fixed-point arithmetic *)

\* The representation of the fraction 1.0.
ONE == 200 * 100

\* f * ONE for a fraction given in hundredths.
Frac(hundredths) == (hundredths * ONE) \div 100

\* The float product of two fractions.
Mul(a, b) == (a * b) \div ONE

Min(a, b) == IF a <= b THEN a ELSE b

Max(a, b) == IF a >= b THEN a ELSE b

\* The integer nearest to n / d (d > 0), ties to the even one: Python's round().
RoundHalfEven(n, d) ==
    LET q == n \div d
        r == n % d
    IN  IF 2 * r < d THEN q
        ELSE IF 2 * r > d THEN q + 1
        ELSE IF q % 2 = 0 THEN q ELSE q + 1

\* round(f * 100, 1) of a fraction f, in tenths of a percent.
RoundPct(f) == RoundHalfEven(f * 1000, ONE)

\* Python's None, and a present optional value.
None == [none |-> TRUE]

Some(v) == [none |-> FALSE, v |-> v]

\* Python truthiness of an optional list: None and [] are falsy.
Truthy(opt) == ~opt.none /\ Len(opt.v) > 0

-----------------------------------------------------------------------------
(* models.py: taxonomy and range tables *)

ExposureLevel ==
    {"E0", "E1", "E2", "E3", "E4", "E5", "E6", "E7", "E8", "E9", "E10", "E11"}

OnetCategory ==
    {"tasks", "skills", "knowledge", "abilities", "work_activities",
     "detailed_work_activities", "technology_skills", "work_context",
     "work_styles", "work_values", "interests", "job_zones", "education"}

SCORABLE_CATEGORIES ==
    <<"tasks", "skills", "knowledge", "abilities", "work_activities",
      "detailed_work_activities", "technology_skills", "work_context",
      "work_styles">>

SubtaskBucket ==
    {"input_gathering", "transformation_drafting", "analysis_planning",
     "coordination_workflow", "review_qa_compliance", "human_only_execution"}

LeverageLevel ==
    {"high", "medium", "low", "workflow_manual", "workflow_integrated",
     "workflow_agentic"}

CeilingCategory ==
    {"physical_execution", "high_stakes_compliance", "relationship_persuasion",
     "pure_drafting"}

CEILING_CAPS ==
    [c \in CeilingCategory |->
        CASE c = "physical_execution" -> Frac(25)
          [] c = "high_stakes_compliance" -> Frac(50)
          [] c = "relationship_persuasion" -> Frac(55)
          [] c = "pure_drafting" -> Frac(85)]

DiscountFactor(name, pct) == [name |-> name, discount_pct |-> pct]

DEFAULT_DISCOUNT_FACTORS ==
    << DiscountFactor("Verification tax", Frac(5)),
       DiscountFactor("Compliance / liability", Frac(5)),
       DiscountFactor("Tool friction", Frac(5)),
       DiscountFactor("Stakeholder delays", Frac(3)),
       DiscountFactor("Novelty / edge cases", Frac(2)) >>

\* Field(ge=0, le=1) of SubtaskScore: what the pydantic constructor accepts.
SubtaskScoreValid(st) ==
    /\ st.bucket \in SubtaskBucket
    /\ st.baseline_share_pct >= 0 /\ st.baseline_share_pct <= ONE
    /\ \A i \in 1..Len(st.exposure_levels) : st.exposure_levels[i] \in ExposureLevel
    /\ st.leverage_level \in LeverageLevel
    /\ st.efficiency_gain_low >= 0 /\ st.efficiency_gain_low <= ONE
    /\ st.efficiency_gain_high >= 0 /\ st.efficiency_gain_high <= ONE

\* Field constraints of ScoredItem (percentages in tenths: 100% = 1000).
ScoredItemValid(it) ==
    /\ it.time_saved_low_pct >= 0 /\ it.time_saved_low_pct <= 1000
    /\ it.time_saved_high_pct >= 0 /\ it.time_saved_high_pct <= 1000
    /\ it.ceiling_cap_pct >= 0 /\ it.ceiling_cap_pct <= 1000
    /\ it.total_discount_pct >= 0 /\ it.total_discount_pct <= ONE

-----------------------------------------------------------------------------
(* scoring_engine.py: Steps E-H of the base methodology *)

RECURSIVE SumRawLow(_)
SumRawLow(subtasks) ==
    IF subtasks = <<>> THEN 0
    ELSE SumRawLow(SubSeq(subtasks, 1, Len(subtasks) - 1))
         + Mul(subtasks[Len(subtasks)].baseline_share_pct,
               subtasks[Len(subtasks)].efficiency_gain_low)

RECURSIVE SumRawHigh(_)
SumRawHigh(subtasks) ==
    IF subtasks = <<>> THEN 0
    ELSE SumRawHigh(SubSeq(subtasks, 1, Len(subtasks) - 1))
         + Mul(subtasks[Len(subtasks)].baseline_share_pct,
               subtasks[Len(subtasks)].efficiency_gain_high)

\* Step E: <<raw_low, raw_high>>, the weighted sums over the subtasks.
compute_raw_time_saved(subtasks) == <<SumRawLow(subtasks), SumRawHigh(subtasks)>>

RECURSIVE SumDiscounts(_)
SumDiscounts(factors) ==
    IF factors = <<>> THEN 0
    ELSE SumDiscounts(Tail(factors)) + Head(factors).discount_pct

\* A slip that forgets the cap on the additive discount.
compute_total_discount_uncapped(factors) ==
    SumDiscounts(IF factors.none THEN DEFAULT_DISCOUNT_FACTORS ELSE factors.v)

\* Step F: the factors' sum, capped at 0.50; the defaults only for None.
compute_total_discount(factors) ==
    LET fs == IF factors.none THEN DEFAULT_DISCOUNT_FACTORS ELSE factors.v
        total == SumDiscounts(fs)
    IN  Min(total, Frac(50))

\* A slip that gives the high end the full discount and the low end half.
apply_discounts_swapped(raw_low, raw_high, total_discount) ==
    << Mul(raw_low, ONE - Mul(total_discount, Frac(50))),
       Mul(raw_high, ONE - total_discount) >>

\* Step F: the low end gets the full discount, the high end half of it.
apply_discounts(raw_low, raw_high, total_discount) ==
    LET adjusted_low == Mul(raw_low, ONE - total_discount)
        adjusted_high == Mul(raw_high, ONE - Mul(total_discount, Frac(50)))
    IN  <<adjusted_low, adjusted_high>>

\* A slip that scales by the cap instead of clamping to it.
apply_ceiling_scaled(adjusted_low, adjusted_high, ceiling_cat) ==
    << Mul(adjusted_low, CEILING_CAPS[ceiling_cat]),
       Mul(adjusted_high, CEILING_CAPS[ceiling_cat]) >>

\* A slip that caps only the high end.
apply_ceiling_high_only(adjusted_low, adjusted_high, ceiling_cat) ==
    <<adjusted_low, Min(adjusted_high, CEILING_CAPS[ceiling_cat])>>

\* Step H: each end is capped independently at the category's ceiling.
apply_ceiling(adjusted_low, adjusted_high, ceiling_cat) ==
    LET cap == CEILING_CAPS[ceiling_cat]
    IN  <<Min(adjusted_low, cap), Min(adjusted_high, cap)>>

RECURSIVE JoinSlash(_)
JoinSlash(codes) ==
    IF codes = <<>> THEN ""
    ELSE IF Len(codes) = 1 THEN codes[1]
    ELSE codes[1] \o "/" \o JoinSlash(Tail(codes))

\* The ScoredItem record score_item builds (before pydantic validates it).
ScoredItemOf(item_name, category, exposure_levels, subtask_scores, ceiling_category, rationale, advancement_notes, discount_factors) ==
    LET raw == compute_raw_time_saved(subtask_scores)
        factors == IF Truthy(discount_factors) THEN discount_factors.v
                   ELSE DEFAULT_DISCOUNT_FACTORS
        total_discount == compute_total_discount(Some(factors))
        adj == apply_discounts(raw[1], raw[2], total_discount)
        final == apply_ceiling(adj[1], adj[2], ceiling_category)
    IN  [item_name |-> item_name,
         category |-> category,
         onet_element_id |-> None,
         importance |-> None,
         level |-> None,
         exposure_levels |-> exposure_levels,
         exposure_label |-> JoinSlash(exposure_levels),
         time_saved_low_pct |-> RoundPct(final[1]),
         time_saved_high_pct |-> RoundPct(final[2]),
         ceiling_category |-> ceiling_category,
         ceiling_cap_pct |-> RoundPct(CEILING_CAPS[ceiling_category]),
         subtask_scores |-> subtask_scores,
         discount_factors |-> factors,
         total_discount_pct |-> total_discount,
         rationale |-> rationale,
         advancement_notes |-> advancement_notes]

\* What a call returns: a value, or the exception it raised.
Returned(v) == [exc |-> "None", val |-> v]

Raised(e) == [exc |-> e]

\* Full item pipeline (Steps E, F, H); ScoredItem(...) validates its fields.
score_item(item_name, category, exposure_levels, subtask_scores, ceiling_category, rationale, advancement_notes, discount_factors) ==
    LET it == ScoredItemOf(item_name, category, exposure_levels, subtask_scores,
                           ceiling_category, rationale, advancement_notes,
                           discount_factors)
    IN  IF ScoredItemValid(it) THEN Returned(it) ELSE Raised("ValidationError")

-----------------------------------------------------------------------------
(* agentic_layer.py: taxonomy and range tables *)

OperatingMode == 0..3

WorkflowUnit ==
    {"intake_triage", "info_retrieval", "planning", "tool_actions",
     "verification_qa", "approvals_compliance", "exceptions_human_only"}

AgenticSuitability == 0..3

StakesLevel == {"low", "medium", "high"}

AgentMaturityLevel == 1..4

\* A slip in the table: a Level-4 band whose top is below Level 3's.
MATURITY_TIME_SAVED_BANDS_level4_narrow ==
    [m \in AgentMaturityLevel |->
        CASE m = 1 -> <<Frac(10), Frac(25)>>
          [] m = 2 -> <<Frac(20), Frac(45)>>
          [] m = 3 -> <<Frac(30), Frac(60)>>
          [] m = 4 -> <<Frac(45), Frac(55)>>]

\* <<band_low, band_high>> per maturity level.
MATURITY_TIME_SAVED_BANDS ==
    [m \in AgentMaturityLevel |->
        CASE m = 1 -> <<Frac(10), Frac(25)>>
          [] m = 2 -> <<Frac(20), Frac(45)>>
          [] m = 3 -> <<Frac(30), Frac(60)>>
          [] m = 4 -> <<Frac(45), Frac(75)>>]

AgenticCeilingCategory ==
    {"regulated_signoffs", "high_touch_relationship", "physical_execution",
     "unstructured_bespoke", "standardized_backoffice"}

AGENTIC_CEILING_CAPS ==
    [c \in AgenticCeilingCategory |->
        CASE c = "regulated_signoffs" -> Frac(50)
          [] c = "high_touch_relationship" -> Frac(30)
          [] c = "physical_execution" -> Frac(15)
          [] c = "unstructured_bespoke" -> Frac(32)
          [] c = "standardized_backoffice" -> Frac(80)]

KnowledgeWorkType ==
    {"routine_cognitive", "complex_cognitive", "creative_cognitive",
     "interpersonal_cognitive", "physical_manual"}

KNOWLEDGE_WORK_AGENTIC_AFFINITY ==
    [k \in KnowledgeWorkType |->
        CASE k = "routine_cognitive" -> Frac(85)
          [] k = "complex_cognitive" -> Frac(55)
          [] k = "creative_cognitive" -> Frac(40)
          [] k = "interpersonal_cognitive" -> Frac(25)
          [] k = "physical_manual" -> Frac(5)]

\* Field constraints of WorkflowUnitScore; net_gain_pct declares no range.
WorkflowUnitScoreValid(ws) ==
    /\ ws.unit \in WorkflowUnit
    /\ ws.time_share_pct >= 0 /\ ws.time_share_pct <= ONE
    /\ ws.agentic_suitability \in AgenticSuitability
    /\ ws.execution_automation_pct >= 0 /\ ws.execution_automation_pct <= ONE
    /\ ws.oversight_tax_pct >= 0 /\ ws.oversight_tax_pct <= ONE

\* Field constraints of AgenticImpactScore.  Percentages are in tenths;
\* exception_rate_pct and takeover_cost_pct hold rate * 100, in units of 1/ONE.
AgenticImpactScoreValid(s) ==
    /\ s.raw_agentic_time_saved_pct >= 0 /\ s.raw_agentic_time_saved_pct <= 1000
    /\ s.workflow_compounding_bonus_pct >= 0 /\ s.workflow_compounding_bonus_pct <= 150
    /\ s.exception_rate_pct >= 0 /\ s.exception_rate_pct <= 100 * ONE
    /\ s.takeover_cost_pct >= 0 /\ s.takeover_cost_pct <= 100 * ONE
    /\ s.adjusted_agentic_time_saved_pct >= 0
    /\ s.adjusted_agentic_time_saved_pct <= 1000
    /\ s.time_saved_low_pct >= 0 /\ s.time_saved_low_pct <= 1000
    /\ s.time_saved_high_pct >= 0 /\ s.time_saved_high_pct <= 1000
    /\ s.ceiling_cap_pct >= 0 /\ s.ceiling_cap_pct <= 1000
    /\ s.final_time_saved_low_pct >= 0 /\ s.final_time_saved_low_pct <= 1000
    /\ s.final_time_saved_high_pct >= 0 /\ s.final_time_saved_high_pct <= 1000
    /\ s.cognitive_displacement_pct >= 0 /\ s.cognitive_displacement_pct <= 1000

-----------------------------------------------------------------------------
(* agentic_layer.py: Steps E-H of the agentic methodology *)

RECURSIVE SumNetGain(_)
SumNetGain(workflow_scores) ==
    IF workflow_scores = <<>> THEN 0
    ELSE SumNetGain(Tail(workflow_scores))
         + Mul(Head(workflow_scores).time_share_pct,
               Head(workflow_scores).net_gain_pct)

\* A slip that drops the floor at zero.
compute_raw_agentic_time_saved_unfloored(workflow_scores) ==
    RoundHalfEven(SumNetGain(workflow_scores) * 1000, ONE)

\* Step E: 100 * sum(share * net gain), floored at 0, rounded to one decimal.
compute_raw_agentic_time_saved(workflow_scores) ==
    LET total == SumNetGain(workflow_scores)
    IN  RoundHalfEven(Max(total * 1000, 0), ONE)

RECURSIVE CountHighAS(_)
CountHighAS(workflow_scores) ==
    IF workflow_scores = <<>> THEN 0
    ELSE CountHighAS(Tail(workflow_scores))
         + (IF Head(workflow_scores).agentic_suitability >= 2 THEN 1 ELSE 0)

\* A slip that gives an empty workflow the minimum bonus of 3.
apply_compounding_bonus_empty_min(raw_pct, workflow_scores) ==
    LET high_as_count == CountHighAS(workflow_scores)
        total_units == Len(workflow_scores)
    IN  IF total_units = 0 THEN <<raw_pct + 30, 30>>
        ELSE LET bonus == RoundHalfEven((3 * total_units + 12 * high_as_count) * 10,
                                        total_units)
             IN  <<RoundHalfEven(raw_pct + bonus, 1), bonus>>

\* A slip that counts every unit of suitability 1 or more as high.
apply_compounding_bonus_from_one(raw_pct, workflow_scores) ==
    LET high_as_count ==
            Cardinality({i \in 1..Len(workflow_scores) :
                            workflow_scores[i].agentic_suitability >= 1})
        total_units == Len(workflow_scores)
    IN  IF total_units = 0 THEN <<raw_pct, 0>>
        ELSE LET bonus == RoundHalfEven((3 * total_units + 12 * high_as_count) * 10,
                                        total_units)
             IN  <<RoundHalfEven(raw_pct + bonus, 1), bonus>>

\* Step E (cont): <<raw_pct + bonus, bonus>>, bonus = 3 + 12 * ratio.
apply_compounding_bonus(raw_pct, workflow_scores) ==
    LET high_as_count == CountHighAS(workflow_scores)
        total_units == Len(workflow_scores)
    IN  IF total_units = 0 THEN <<raw_pct, 0>>
        ELSE LET bonus == RoundHalfEven((3 * total_units + 12 * high_as_count) * 10,
                                        total_units)
             IN  <<RoundHalfEven(raw_pct + bonus, 1), bonus>>

\* A slip that drops the floor at zero.
apply_agentic_discounts_unfloored(adjusted_pct, exception_rate, takeover_cost) ==
    RoundHalfEven(adjusted_pct * ONE - Mul(exception_rate, takeover_cost) * 1000, ONE)

\* Step F: adjusted - exception_rate * takeover_cost * 100, floored at 0.
apply_agentic_discounts(adjusted_pct, exception_rate, takeover_cost) ==
    LET penalty == Mul(exception_rate, takeover_cost) * 1000
    IN  RoundHalfEven(Max(adjusted_pct * ONE - penalty, 0), ONE)

\* A slip that normalises the low end around 0.50 but not the high end.
compute_maturity_range_high_unscaled(adjusted_pct, maturity) ==
    LET band_low == MATURITY_TIME_SAVED_BANDS[maturity][1]
        band_high == MATURITY_TIME_SAVED_BANDS[maturity][2]
    IN  << RoundHalfEven(Max(adjusted_pct * band_low, 0), Frac(50)),
           RoundHalfEven(Min(adjusted_pct * band_high, 1000 * ONE), ONE) >>

\* Step G: the adjusted estimate scaled by the maturity band over 0.50.
compute_maturity_range(adjusted_pct, maturity) ==
    LET band_low == MATURITY_TIME_SAVED_BANDS[maturity][1]
        band_high == MATURITY_TIME_SAVED_BANDS[maturity][2]
        low == adjusted_pct * band_low
        high == adjusted_pct * band_high
    IN  << RoundHalfEven(Max(low, 0), Frac(50)),
           RoundHalfEven(Min(high, 1000 * Frac(50)), Frac(50)) >>

\* A slip that caps the high end only.
apply_agentic_ceiling_high_only(low_pct, high_pct, ceiling) ==
    LET cap == (AGENTIC_CEILING_CAPS[ceiling] * 1000) \div ONE
    IN  <<low_pct, Min(high_pct, cap)>>

\* Step H: each end capped at the agentic ceiling (in tenths of a percent).
apply_agentic_ceiling(low_pct, high_pct, ceiling) ==
    LET cap == (AGENTIC_CEILING_CAPS[ceiling] * 1000) \div ONE
    IN  <<Min(low_pct, cap), Min(high_pct, cap)>>

\* Cognitive displacement: savings * affinity * mode factor, capped at 90.
compute_cognitive_displacement(knowledge_work_type, mode, final_time_saved_high) ==
    LET affinity == KNOWLEDGE_WORK_AGENTIC_AFFINITY[knowledge_work_type]
        mode_factor == Frac(50) + mode * Frac(15)
        raw == final_time_saved_high * Mul(affinity, mode_factor)
    IN  RoundHalfEven(Min(raw, 900 * ONE), ONE)

\* A slip that subtracts the exception discount before the bonus is added.
AgenticImpactScoreOf_discount_first(item_name, category, recommended_mode, mode_rationale, workflow_scores, exception_rate, takeover_cost, current_maturity, agentic_ceiling, knowledge_work_type, stakes_level, agentic_rationale, advancement_notes, near_term_projection) ==
    LET raw_pct == compute_raw_agentic_time_saved(workflow_scores)
        discounted == apply_agentic_discounts(raw_pct, exception_rate, takeover_cost)
        wb == apply_compounding_bonus(discounted, workflow_scores)
        adjusted_pct == wb[1]
        range == compute_maturity_range(adjusted_pct, current_maturity)
        final == apply_agentic_ceiling(range[1], range[2], agentic_ceiling)
        ceiling_cap == (AGENTIC_CEILING_CAPS[agentic_ceiling] * 1000) \div ONE
        cog_disp == compute_cognitive_displacement(knowledge_work_type,
                                                   recommended_mode, final[2])
    IN  [item_name |-> item_name,
         category |-> category,
         recommended_mode |-> recommended_mode,
         mode_rationale |-> mode_rationale,
         workflow_scores |-> workflow_scores,
         raw_agentic_time_saved_pct |-> raw_pct,
         workflow_compounding_bonus_pct |-> wb[2],
         exception_rate_pct |-> exception_rate * 100,
         takeover_cost_pct |-> takeover_cost * 100,
         adjusted_agentic_time_saved_pct |-> adjusted_pct,
         current_maturity |-> current_maturity,
         time_saved_low_pct |-> range[1],
         time_saved_high_pct |-> range[2],
         agentic_ceiling |-> agentic_ceiling,
         ceiling_cap_pct |-> ceiling_cap,
         final_time_saved_low_pct |-> final[1],
         final_time_saved_high_pct |-> final[2],
         knowledge_work_type |-> knowledge_work_type,
         cognitive_displacement_pct |-> cog_disp,
         stakes_level |-> stakes_level,
         agentic_rationale |-> agentic_rationale,
         advancement_notes |-> advancement_notes,
         near_term_projection |-> near_term_projection]

\* The AgenticImpactScore record score_agentic_item builds (before validation).
AgenticImpactScoreOf(item_name, category, recommended_mode, mode_rationale, workflow_scores, exception_rate, takeover_cost, current_maturity, agentic_ceiling, knowledge_work_type, stakes_level, agentic_rationale, advancement_notes, near_term_projection) ==
    LET raw_pct == compute_raw_agentic_time_saved(workflow_scores)
        wb == apply_compounding_bonus(raw_pct, workflow_scores)
        adjusted_pct == apply_agentic_discounts(wb[1], exception_rate, takeover_cost)
        range == compute_maturity_range(adjusted_pct, current_maturity)
        final == apply_agentic_ceiling(range[1], range[2], agentic_ceiling)
        ceiling_cap == (AGENTIC_CEILING_CAPS[agentic_ceiling] * 1000) \div ONE
        cog_disp == compute_cognitive_displacement(knowledge_work_type,
                                                   recommended_mode, final[2])
    IN  [item_name |-> item_name,
         category |-> category,
         recommended_mode |-> recommended_mode,
         mode_rationale |-> mode_rationale,
         workflow_scores |-> workflow_scores,
         raw_agentic_time_saved_pct |-> raw_pct,
         workflow_compounding_bonus_pct |-> wb[2],
         exception_rate_pct |-> exception_rate * 100,
         takeover_cost_pct |-> takeover_cost * 100,
         adjusted_agentic_time_saved_pct |-> adjusted_pct,
         current_maturity |-> current_maturity,
         time_saved_low_pct |-> range[1],
         time_saved_high_pct |-> range[2],
         agentic_ceiling |-> agentic_ceiling,
         ceiling_cap_pct |-> ceiling_cap,
         final_time_saved_low_pct |-> final[1],
         final_time_saved_high_pct |-> final[2],
         knowledge_work_type |-> knowledge_work_type,
         cognitive_displacement_pct |-> cog_disp,
         stakes_level |-> stakes_level,
         agentic_rationale |-> agentic_rationale,
         advancement_notes |-> advancement_notes,
         near_term_projection |-> near_term_projection]

\* Full agentic pipeline; AgenticImpactScore(...) validates its fields.
score_agentic_item(item_name, category, recommended_mode, mode_rationale, workflow_scores, exception_rate, takeover_cost, current_maturity, agentic_ceiling, knowledge_work_type, stakes_level, agentic_rationale, advancement_notes, near_term_projection) ==
    LET s == AgenticImpactScoreOf(item_name, category, recommended_mode,
                                  mode_rationale, workflow_scores, exception_rate,
                                  takeover_cost, current_maturity, agentic_ceiling,
                                  knowledge_work_type, stakes_level,
                                  agentic_rationale, advancement_notes,
                                  near_term_projection)
    IN  IF AgenticImpactScoreValid(s) THEN Returned(s)
        ELSE Raised("ValidationError")

\* A slip that takes the agentic estimate even when it is below the base one.
apply_agentic_adjustment_replace(base_item, agentic_score) ==
    IF "E9" \notin {base_item.exposure_levels[i] :
                        i \in 1..Len(base_item.exposure_levels)}
       /\ agentic_score.final_time_saved_high_pct < 100
    THEN base_item
    ELSE [base_item EXCEPT
            !.time_saved_low_pct =
                Min(agentic_score.final_time_saved_low_pct, base_item.ceiling_cap_pct),
            !.time_saved_high_pct =
                Min(agentic_score.final_time_saved_high_pct, base_item.ceiling_cap_pct)]

\* A slip that drops the gate: every item is adjusted.
apply_agentic_adjustment_ungated(base_item, agentic_score) ==
    [base_item EXCEPT
        !.time_saved_low_pct =
            Min(Max(base_item.time_saved_low_pct,
                    agentic_score.final_time_saved_low_pct),
                base_item.ceiling_cap_pct),
        !.time_saved_high_pct =
            Min(Max(base_item.time_saved_high_pct,
                    agentic_score.final_time_saved_high_pct),
                base_item.ceiling_cap_pct)]

\* A slip that forgets to re-clamp to the base item's ceiling.
apply_agentic_adjustment_unclamped(base_item, agentic_score) ==
    IF "E9" \notin {base_item.exposure_levels[i] :
                        i \in 1..Len(base_item.exposure_levels)}
       /\ agentic_score.final_time_saved_high_pct < 100
    THEN base_item
    ELSE [base_item EXCEPT
            !.time_saved_low_pct =
                Max(base_item.time_saved_low_pct,
                    agentic_score.final_time_saved_low_pct),
            !.time_saved_high_pct =
                Max(base_item.time_saved_high_pct,
                    agentic_score.final_time_saved_high_pct)]

\* A slip that also lifts the base item's ceiling to the agentic one.
apply_agentic_adjustment_lifts_cap(base_item, agentic_score) ==
    IF "E9" \notin {base_item.exposure_levels[i] :
                        i \in 1..Len(base_item.exposure_levels)}
       /\ agentic_score.final_time_saved_high_pct < 100
    THEN base_item
    ELSE [base_item EXCEPT
            !.time_saved_low_pct =
                Min(Max(base_item.time_saved_low_pct,
                        agentic_score.final_time_saved_low_pct),
                    base_item.ceiling_cap_pct),
            !.time_saved_high_pct =
                Min(Max(base_item.time_saved_high_pct,
                        agentic_score.final_time_saved_high_pct),
                    base_item.ceiling_cap_pct),
            !.ceiling_cap_pct =
                Max(base_item.ceiling_cap_pct,
                    (AGENTIC_CEILING_CAPS[agentic_score.agentic_ceiling] * 1000)
                        \div ONE)]

\* A slip that adds the agentic bounds to the base bounds.
apply_agentic_adjustment_additive(base_item, agentic_score) ==
    LET has_agentic == "E9" \in {base_item.exposure_levels[i] :
                                    i \in 1..Len(base_item.exposure_levels)}
    IN  IF ~has_agentic /\ agentic_score.final_time_saved_high_pct < 100
        THEN base_item
        ELSE LET ceiling_pct == base_item.ceiling_cap_pct
                 new_low == Min(base_item.time_saved_low_pct
                                    + agentic_score.final_time_saved_low_pct,
                                ceiling_pct)
                 new_high == Min(base_item.time_saved_high_pct
                                     + agentic_score.final_time_saved_high_pct,
                                 ceiling_pct)
             IN  [base_item EXCEPT
                    !.time_saved_low_pct = RoundHalfEven(new_low, 1),
                    !.time_saved_high_pct = RoundHalfEven(new_high, 1)]

\* Reconciliation: lift the base bounds to the agentic ones, within the base
\* item's own ceiling; gated on E9 or a final agentic high of at least 10%.
apply_agentic_adjustment(base_item, agentic_score) ==
    LET has_agentic == "E9" \in {base_item.exposure_levels[i] :
                                    i \in 1..Len(base_item.exposure_levels)}
    IN  IF ~has_agentic /\ agentic_score.final_time_saved_high_pct < 100
        THEN base_item
        ELSE LET ceiling_pct == base_item.ceiling_cap_pct
                 new_low == Min(Max(base_item.time_saved_low_pct,
                                    agentic_score.final_time_saved_low_pct),
                                ceiling_pct)
                 new_high == Min(Max(base_item.time_saved_high_pct,
                                     agentic_score.final_time_saved_high_pct),
                                 ceiling_pct)
             IN  [base_item EXCEPT
                    !.time_saved_low_pct = RoundHalfEven(new_low, 1),
                    !.time_saved_high_pct = RoundHalfEven(new_high, 1)]

-----------------------------------------------------------------------------
(* Bounds and input grids of the engine harness *)

MaxSubtasks == 2

MaxFactors == 2

MaxUnits == 2

MaxRawTenths == 12

SeqsUpTo(S, n) == UNION {[1..k -> S] : k \in 0..n}

\* Validated SubtaskScore objects: shares 0, 0.5, 1 and gain pairs, one of them
\* with efficiency_gain_low above efficiency_gain_high (the type allows it).
GainPairs == {<<Frac(0), Frac(20)>>, <<Frac(20), Frac(80)>>,
              <<Frac(80), Frac(100)>>, <<Frac(80), Frac(20)>>}

SubtaskScores ==
    {[bucket |-> "transformation_drafting",
      baseline_share_pct |-> sh,
      exposure_levels |-> <<"E1">>,
      leverage_level |-> "high",
      efficiency_gain_low |-> g[1],
      efficiency_gain_high |-> g[2]] :
        sh \in {Frac(0), Frac(50), Frac(100)}, g \in GainPairs}

DiscountFactors ==
    {DiscountFactor("custom", d) : d \in {Frac(0), Frac(10), Frac(30), Frac(100)}}

\* The discount_factors argument: None (omitted) or an explicit list.
DiscountArgs == {None} \cup {Some(fs) : fs \in SeqsUpTo(DiscountFactors, MaxFactors)}

ScoreItemDiscountArgs ==
    {None, Some(<<>>), Some(<<DiscountFactor("custom", Frac(10))>>),
     Some(<<DiscountFactor("custom", Frac(30)), DiscountFactor("custom", Frac(30))>>)}

\* Raw time-saved fractions as compute_raw_time_saved returns them: sums of
\* products of validated (non-negative) shares and gains.
RawVals == {k * Frac(10) : k \in 0..MaxRawTenths}

\* Valid total discounts: every hundredth in [0, 0.50].
DiscountVals == {Frac(k) : k \in 0..50}

\* Adjusted fractions handed to apply_ceiling, in steps of 0.05.
AdjVals == {k * Frac(5) : k \in 0..(2 * MaxRawTenths)}

\* Validated WorkflowUnitScore objects; <<EA, OT, net_gain>> triples.
GainTriples == {<<Frac(60), Frac(10), Frac(50)>>, <<Frac(10), Frac(30), 0 - Frac(20)>>,
                <<Frac(100), Frac(10), Frac(90)>>}

WorkflowUnitScores ==
    {[unit |-> "tool_actions",
      time_share_pct |-> sh,
      agentic_suitability |-> as,
      execution_automation_pct |-> t[1],
      oversight_tax_pct |-> t[2],
      net_gain_pct |-> t[3],
      rationale |-> "r"] :
        sh \in {Frac(50), Frac(100)}, as \in {0, 3}, t \in GainTriples}

\* <<exception_rate, takeover_cost>> pairs.
RatePairs == {<<Frac(0), Frac(0)>>, <<Frac(15), Frac(50)>>}

ScoreItemCalls ==
    {[op |-> "score_item", args |-> <<exp, sts, c, df>>] :
        exp \in {<<"E2", "E7">>}, sts \in SeqsUpTo(SubtaskScores, MaxSubtasks),
        c \in CeilingCategory, df \in ScoreItemDiscountArgs}

ScoreAgenticItemCalls ==
    {[op |-> "score_agentic_item", args |-> <<ws, rp[1], rp[2], m, c>>] :
        ws \in SeqsUpTo(WorkflowUnitScores, MaxUnits), rp \in RatePairs,
        m \in AgentMaturityLevel, c \in {"physical_execution", "standardized_backoffice"}}

\* Base items as score_item returns them, and agentic scores as
\* score_agentic_item returns them: the only records the program ever builds.
AdjustmentBaseItems ==
    {score_item("item", "tasks", exp, sts, c, "r", "", None).val :
        exp \in {<<"E1">>, <<"E2", "E9">>}, sts \in SeqsUpTo(SubtaskScores, 1),
        c \in CeilingCategory}

AdjustmentAgenticScores ==
    {r.val : r \in
        {rr \in {score_agentic_item("item", "tasks", 2, "r", ws, rp[1], rp[2], m, c,
                                    "routine_cognitive", "low", "r", "", "") :
                    ws \in SeqsUpTo(WorkflowUnitScores, 1), rp \in RatePairs,
                    m \in AgentMaturityLevel,
                    c \in {"physical_execution", "standardized_backoffice"}} :
            rr.exc = "None"}}

EngineCalls ==
    {[op |-> "compute_total_discount", args |-> <<df>>] : df \in DiscountArgs}
    \cup {[op |-> "apply_discounts", args |-> <<rl, rh, d>>] :
            rl \in RawVals, rh \in RawVals, d \in DiscountVals}
    \cup {[op |-> "apply_ceiling", args |-> <<l, h, c>>] :
            l \in AdjVals, h \in AdjVals, c \in CeilingCategory}
    \cup ScoreItemCalls
    \cup {[op |-> "compute_raw_agentic_time_saved", args |-> <<ws>>] :
            ws \in SeqsUpTo(WorkflowUnitScores, MaxUnits)}
    \cup ScoreAgenticItemCalls
    \cup {[op |-> "apply_agentic_adjustment", args |-> <<b, a>>] :
            b \in AdjustmentBaseItems, a \in AdjustmentAgenticScores}

-----------------------------------------------------------------------------
(* The engine harness: one call of one engine function per behaviour *)

NoScorer ==
    /\ onet_data = <<>>
    /\ include_agentic = FALSE
    /\ cat_idx = 0
    /\ parsed = None
    /\ scored_items = <<>>
    /\ agentic_scores = <<>>
    /\ category_summaries = <<>>
    /\ all_agentic_scores = <<>>
    /\ llm_calls = <<>>
    /\ raised = "None"
    /\ alert = None

InitEngine ==
    /\ input \in EngineCalls
    /\ output = None
    /\ pc = "call"
    /\ NoScorer

CallComputeTotalDiscount ==
    /\ pc = "call"
    /\ input.op = "compute_total_discount"
    /\ output' = Returned(compute_total_discount(input.args[1]))
    /\ pc' = "return"
    /\ UNCHANGED <<input, scorerVars>>

CallApplyDiscounts ==
    /\ pc = "call"
    /\ input.op = "apply_discounts"
    /\ output' = Returned(apply_discounts(input.args[1], input.args[2], input.args[3]))
    /\ pc' = "return"
    /\ UNCHANGED <<input, scorerVars>>

CallApplyCeiling ==
    /\ pc = "call"
    /\ input.op = "apply_ceiling"
    /\ output' = Returned(apply_ceiling(input.args[1], input.args[2], input.args[3]))
    /\ pc' = "return"
    /\ UNCHANGED <<input, scorerVars>>

CallScoreItem ==
    /\ pc = "call"
    /\ input.op = "score_item"
    /\ output' = score_item("item", "tasks", input.args[1], input.args[2],
                            input.args[3], "r", "", input.args[4])
    /\ pc' = "return"
    /\ UNCHANGED <<input, scorerVars>>

CallComputeRawAgenticTimeSaved ==
    /\ pc = "call"
    /\ input.op = "compute_raw_agentic_time_saved"
    /\ output' = Returned(compute_raw_agentic_time_saved(input.args[1]))
    /\ pc' = "return"
    /\ UNCHANGED <<input, scorerVars>>

CallScoreAgenticItem ==
    /\ pc = "call"
    /\ input.op = "score_agentic_item"
    /\ output' = score_agentic_item("item", "tasks", 2, "r", input.args[1],
                                    input.args[2], input.args[3], input.args[4],
                                    input.args[5], "routine_cognitive", "low",
                                    "r", "", "")
    /\ pc' = "return"
    /\ UNCHANGED <<input, scorerVars>>

CallApplyAgenticAdjustment ==
    /\ pc = "call"
    /\ input.op = "apply_agentic_adjustment"
    /\ output' = Returned(apply_agentic_adjustment(input.args[1], input.args[2]))
    /\ pc' = "return"
    /\ UNCHANGED <<input, scorerVars>>

NextEngine ==
    \/ CallComputeTotalDiscount
    \/ CallApplyDiscounts
    \/ CallApplyCeiling
    \/ CallScoreItem
    \/ CallComputeRawAgenticTimeSaved
    \/ CallScoreAgenticItem
    \/ CallApplyAgenticAdjustment

SpecEngine == InitEngine /\ [][NextEngine]_vars

\* The call op has returned a value (it did not raise).
Done(op) == pc = "return" /\ input.op = op /\ output.exc = "None"

-----------------------------------------------------------------------------
(* Properties of the engine functions, checked under SpecEngine *)

HasE9(item) ==
    "E9" \in {item.exposure_levels[i] : i \in 1..Len(item.exposure_levels)}

\* C1: apply_agentic_adjustment never lowers an estimate: for every base item
\* the program builds (score_item's results) and every agentic score, the
\* returned item's low and high bounds are at least the base item's.
C1_AdjustmentNeverLowers ==
    Done("apply_agentic_adjustment") =>
        /\ output.val.time_saved_high_pct >= input.args[1].time_saved_high_pct
        /\ output.val.time_saved_low_pct >= input.args[1].time_saved_low_pct

\* An adjustment that applied and raised the high bound of an item whose base
\* high bound was positive, under an agentic low bound below the base one.
C1_Witness ==
    /\ Done("apply_agentic_adjustment")
    /\ input.args[1].time_saved_high_pct > 0
    /\ output.val.time_saved_high_pct > input.args[1].time_saved_high_pct
    /\ input.args[2].final_time_saved_low_pct < input.args[1].time_saved_low_pct

\* The inputs of score_agentic_item the claim calls well-typed.
WellTypedAgenticArgs ==
    /\ \A i \in 1..Len(input.args[1]) : WorkflowUnitScoreValid(input.args[1][i])
    /\ input.args[2] >= 0 /\ input.args[2] <= ONE
    /\ input.args[3] >= 0 /\ input.args[3] <= ONE
    /\ input.args[4] \in AgentMaturityLevel
    /\ input.args[5] \in AgenticCeilingCategory

\* C3: score_agentic_item raises no exception on well-typed input and returns
\* an AgenticImpactScore whose percentage fields lie in their declared ranges.
C3_NoExceptionOnWellTyped ==
    (pc = "return" /\ input.op = "score_agentic_item" /\ WellTypedAgenticArgs) =>
        /\ output.exc = "None"
        /\ AgenticImpactScoreValid(output.val)

GainsOrdered(subtasks) ==
    \A i \in 1..Len(subtasks) :
        subtasks[i].efficiency_gain_low <= subtasks[i].efficiency_gain_high

\* C5: for every ceiling category and every subtask list with shares and gains
\* in [0,1] and gain low <= gain high per bucket (whatever the shares sum to),
\* score_item returns an item with 0 <= low <= high <= ceiling_cap_pct, where
\* ceiling_cap_pct is 100 times the category's cap (85.0 for pure_drafting),
\* and with a nonzero total_discount_pct under the default discount factors.
C5_ScoreItemWithinCeiling ==
    (pc = "return" /\ input.op = "score_item" /\ GainsOrdered(input.args[2])) =>
        /\ output.exc = "None"
        /\ 0 <= output.val.time_saved_low_pct
        /\ output.val.time_saved_low_pct <= output.val.time_saved_high_pct
        /\ output.val.time_saved_high_pct <= output.val.ceiling_cap_pct
        /\ output.val.ceiling_cap_pct * ONE = 1000 * CEILING_CAPS[input.args[3]]
        /\ (input.args[3] = "pure_drafting" => output.val.ceiling_cap_pct = 850)
        /\ (input.args[4] = None => output.val.total_discount_pct # 0)

\* A score_item call whose shares sum to more than 1 and whose discounted high
\* estimate exceeds the ceiling, so that the cap decides the high bound.
C5_Witness ==
    /\ Done("score_item")
    /\ GainsOrdered(input.args[2])
    /\ SumRawHigh(input.args[2]) > ONE
    /\ output.val.time_saved_high_pct = output.val.ceiling_cap_pct
    /\ output.val.time_saved_low_pct < output.val.time_saved_high_pct
    /\ output.val.time_saved_low_pct > 0

\* C6: custom discount-factor lists are summed directly: for every list passed
\* explicitly as discount_factors, the empty list included, the item's
\* total_discount_pct is compute_total_discount of that list and its
\* discount_factors field is that list.
C6_CustomDiscountsSummedDirectly ==
    (Done("score_item") /\ ~input.args[4].none) =>
        /\ output.val.total_discount_pct = compute_total_discount(input.args[4])
        /\ output.val.discount_factors = input.args[4].v

\* C7: compute_total_discount is min(sum of the factors, 0.50) and lies in
\* [0, 0.50]; two factors of 0.30 give 0.50 and the default list gives 0.20.
C7_TotalDiscountCapped ==
    Done("compute_total_discount") =>
        LET fs == IF input.args[1].none THEN DEFAULT_DISCOUNT_FACTORS
                  ELSE input.args[1].v
        IN  /\ output.val >= 0
            /\ output.val <= Frac(50)
            /\ output.val = Min(SumDiscounts(fs), Frac(50))
            /\ (input.args[1].none => output.val = Frac(20))
            /\ (input.args[1] = Some(<<DiscountFactor("custom", Frac(30)),
                                       DiscountFactor("custom", Frac(30))>>)
                    => output.val = Frac(50))

\* A call whose factors sum to more than 0.50 and that returned exactly 0.50.
C7_Witness ==
    /\ Done("compute_total_discount")
    /\ ~input.args[1].none
    /\ SumDiscounts(input.args[1].v) > Frac(50)
    /\ output.val = Frac(50)

\* C8: for every discount d in [0, 0.5] and every raw pair, apply_discounts
\* returns adj_low = raw_low * (1 - d) <= raw_low and
\* adj_high = raw_high * (1 - d/2) <= raw_high, and adj_high >= adj_low
\* whenever raw_high >= raw_low.
C8_DiscountsMonotone ==
    Done("apply_discounts") =>
        LET raw_low == input.args[1]
            raw_high == input.args[2]
            d == input.args[3]
        IN  /\ output.val[1] <= raw_low
            /\ output.val[2] <= raw_high
            /\ (raw_high >= raw_low => output.val[2] >= output.val[1])
            /\ output.val[1] * ONE = raw_low * (ONE - d)
            /\ output.val[2] * 2 * ONE = raw_high * (2 * ONE - d)

\* A call with a positive discount that lowered both ends and kept the order
\* of a pair whose ends were equal.
C8_Witness ==
    /\ Done("apply_discounts")
    /\ input.args[3] > 0
    /\ input.args[1] = input.args[2]
    /\ output.val[1] < input.args[1]
    /\ output.val[2] < input.args[2]
    /\ output.val[2] > output.val[1]

\* C9: apply_ceiling is idempotent: applied to its own output with the same
\* category it returns the same pair; each end is min(value, cap), unchanged at
\* or below the cap and collapsed to the cap above it.
C9_CeilingIdempotent ==
    Done("apply_ceiling") =>
        LET cap == CEILING_CAPS[input.args[3]]
        IN  /\ apply_ceiling(output.val[1], output.val[2], input.args[3]) = output.val
            /\ output.val[1] = (IF input.args[1] <= cap THEN input.args[1] ELSE cap)
            /\ output.val[2] = (IF input.args[2] <= cap THEN input.args[2] ELSE cap)

\* A call that capped the high end and left a positive low end alone.
C9_Witness ==
    /\ Done("apply_ceiling")
    /\ input.args[2] > CEILING_CAPS[input.args[3]]
    /\ output.val[2] = CEILING_CAPS[input.args[3]]
    /\ input.args[1] > 0
    /\ output.val[1] = input.args[1]

\* C10: compute_raw_agentic_time_saved never returns a negative value: the
\* result is max(100 * sum(share * net gain), 0) to one decimal, so a batch
\* whose net gains are all negative yields exactly 0.
C10_RawAgenticFloored ==
    Done("compute_raw_agentic_time_saved") =>
        LET ws == input.args[1]
            exact == Max(SumNetGain(ws) * 1000, 0)
        IN  /\ output.val >= 0
            /\ 2 * (output.val * ONE - exact) <= ONE
            /\ 2 * (exact - output.val * ONE) <= ONE
            /\ ((\A i \in 1..Len(ws) : ws[i].net_gain_pct < 0) => output.val = 0)

\* A non-empty batch whose net gains are all negative, which returned 0.
C10_Witness ==
    /\ Done("compute_raw_agentic_time_saved")
    /\ Len(input.args[1]) > 0
    /\ \A i \in 1..Len(input.args[1]) : input.args[1][i].net_gain_pct < 0
    /\ SumNetGain(input.args[1]) < 0
    /\ output.val = 0

\* The gate of apply_agentic_adjustment is open for this call.
GateOpen ==
    \/ HasE9(input.args[1])
    \/ input.args[2].final_time_saved_high_pct >= 100

\* C13: apply_agentic_adjustment adjusts only if the base item carries E9 or
\* the agentic final high is at least 10%; otherwise it returns the base item
\* unchanged, with exactly the same time-saved bounds.
C13_GateReturnsBaseUnchanged ==
    Done("apply_agentic_adjustment") /\ ~GateOpen =>
        /\ output.val = input.args[1]
        /\ output.val.time_saved_low_pct = input.args[1].time_saved_low_pct
        /\ output.val.time_saved_high_pct = input.args[1].time_saved_high_pct

\* A base item without E9 met an agentic score whose final high is below 10%
\* but above the base high bound, and came back unchanged.
C13_Witness ==
    /\ Done("apply_agentic_adjustment")
    /\ ~GateOpen
    /\ input.args[2].final_time_saved_high_pct > input.args[1].time_saved_high_pct
    /\ input.args[1].ceiling_cap_pct > input.args[1].time_saved_high_pct
    /\ output.val = input.args[1]

\* C14: when apply_agentic_adjustment applies, each new bound is
\* min(max(base bound, agentic final bound), base ceiling_cap_pct), so neither
\* returned bound exceeds the base item's own ceiling_cap_pct.
C14_AdjustedWithinBaseCeiling ==
    Done("apply_agentic_adjustment") /\ GateOpen =>
        LET base == input.args[1]
            agentic == input.args[2]
        IN  /\ output.val.time_saved_low_pct
                   = Min(Max(base.time_saved_low_pct, agentic.final_time_saved_low_pct),
                         base.ceiling_cap_pct)
            /\ output.val.time_saved_high_pct
                   = Min(Max(base.time_saved_high_pct, agentic.final_time_saved_high_pct),
                         base.ceiling_cap_pct)
            /\ output.val.time_saved_low_pct <= base.ceiling_cap_pct
            /\ output.val.time_saved_high_pct <= base.ceiling_cap_pct

\* An adjustment whose agentic high bound, under a higher agentic ceiling,
\* is above the base item's ceiling: the result stops at the base ceiling.
C14_Witness ==
    /\ Done("apply_agentic_adjustment")
    /\ GateOpen
    /\ input.args[2].final_time_saved_high_pct > input.args[1].ceiling_cap_pct
    /\ (AGENTIC_CEILING_CAPS[input.args[2].agentic_ceiling] * 1000) \div ONE
           > input.args[1].ceiling_cap_pct
    /\ output.val.time_saved_high_pct = input.args[1].ceiling_cap_pct
    /\ input.args[1].time_saved_high_pct < input.args[1].ceiling_cap_pct

\* C15: apply_agentic_adjustment changes nothing but the two time-saved
\* bounds: the returned item is a record with the base item's fields, equal
\* to the base item in every field but those two.
C15_OnlyBoundsChange ==
    Done("apply_agentic_adjustment") =>
        LET base == input.args[1]
        IN  /\ DOMAIN output.val = DOMAIN base
            /\ \A f \in DOMAIN base \ {"time_saved_low_pct", "time_saved_high_pct"} :
                   output.val[f] = base[f]

\* An adjustment that raised both bounds of the base item.
C15_Witness ==
    /\ Done("apply_agentic_adjustment")
    /\ GateOpen
    /\ output.val.time_saved_low_pct > input.args[1].time_saved_low_pct
    /\ output.val.time_saved_high_pct > input.args[1].time_saved_high_pct
    /\ output.val.item_name = input.args[1].item_name


\* The exception/takeover penalty er * tc * 100 of a score_agentic_item call,
\* in tenths of a percent times ONE.
PenaltyOf(call) == Mul(call.args[2], call.args[3]) * 1000

\* C24: score_agentic_item adds the compounding bonus before it subtracts the
\* exception/takeover discount and floors: adjusted_agentic_time_saved_pct =
\* max(raw + bonus - exception_rate * takeover_cost * 100, 0), to one decimal,
\* and the maturity range is computed from that adjusted value.
C24_BonusThenDiscountThenRange ==
    Done("score_agentic_item") =>
        LET s == output.val
            exact == Max((s.raw_agentic_time_saved_pct
                              + s.workflow_compounding_bonus_pct) * ONE
                             - PenaltyOf(input), 0)
            diff == s.adjusted_agentic_time_saved_pct * ONE - exact
        IN  /\ 2 * diff <= ONE
            /\ 2 * diff >= 0 - ONE
            /\ <<s.time_saved_low_pct, s.time_saved_high_pct>>
                   = compute_maturity_range(s.adjusted_agentic_time_saved_pct,
                                            s.current_maturity)

\* A call where the order matters: the raw estimate is below the penalty and
\* the bonus is not, and one where all three terms are positive.
C24_Witness ==
    /\ Done("score_agentic_item")
    /\ output.val.raw_agentic_time_saved_pct * ONE < PenaltyOf(input)
    /\ output.val.workflow_compounding_bonus_pct > 0
    /\ PenaltyOf(input) > 0

C24_WitnessAllPositive ==
    /\ Done("score_agentic_item")
    /\ output.val.raw_agentic_time_saved_pct > 0
    /\ output.val.workflow_compounding_bonus_pct > 0
    /\ PenaltyOf(input) > 0
    /\ output.val.adjusted_agentic_time_saved_pct > 0


\* 100 * AGENTIC_CEILING_CAPS[ceiling] in tenths of a percent, from the table.
CeilingCapTenths(ceiling) ==
    CHOOSE t \in 0..1000 : t * ONE = AGENTIC_CEILING_CAPS[ceiling] * 1000

\* C25: every AgenticImpactScore score_agentic_item returns has
\* 0 <= final_time_saved_low_pct <= final_time_saved_high_pct <= ceiling_cap_pct
\* with ceiling_cap_pct = 100 * AGENTIC_CEILING_CAPS[agentic_ceiling], and each
\* final bound is the smaller of its maturity-range bound and the cap.
C25_FinalBoundsWithinAgenticCeiling ==
    Done("score_agentic_item") =>
        LET s == output.val
        IN  /\ 0 <= s.final_time_saved_low_pct
            /\ s.final_time_saved_low_pct <= s.final_time_saved_high_pct
            /\ s.final_time_saved_high_pct <= s.ceiling_cap_pct
            /\ s.ceiling_cap_pct = CeilingCapTenths(s.agentic_ceiling)
            /\ s.agentic_ceiling = input.args[5]
            /\ s.final_time_saved_low_pct
                   = Min(s.time_saved_low_pct, s.ceiling_cap_pct)
            /\ s.final_time_saved_high_pct
                   = Min(s.time_saved_high_pct, s.ceiling_cap_pct)
            /\ s.final_time_saved_low_pct <= s.time_saved_low_pct
            /\ s.final_time_saved_high_pct <= s.time_saved_high_pct

\* A returned score whose maturity range lies wholly above its ceiling: both
\* ends are cut to the cap.
C25_Witness ==
    /\ Done("score_agentic_item")
    /\ output.val.time_saved_low_pct > output.val.ceiling_cap_pct
    /\ output.val.final_time_saved_low_pct = output.val.ceiling_cap_pct
    /\ output.val.final_time_saved_high_pct = output.val.ceiling_cap_pct

\* A returned score whose range straddles the cap: only the high end is cut.
C25_WitnessStraddle ==
    /\ Done("score_agentic_item")
    /\ output.val.time_saved_low_pct < output.val.ceiling_cap_pct
    /\ output.val.time_saved_high_pct > output.val.ceiling_cap_pct


\* C29: apply_agentic_adjustment is idempotent in the agentic score --
\* adjusting the adjusted item with the same score again returns the adjusted
\* item -- and it keeps low <= high: if the base item and the score each have
\* low <= high, so does the result.
C29_AdjustmentIdempotentAndOrdered ==
    Done("apply_agentic_adjustment") =>
        LET base == input.args[1]
            agentic == input.args[2]
        IN  /\ apply_agentic_adjustment(output.val, agentic) = output.val
            /\ (/\ base.time_saved_low_pct <= base.time_saved_high_pct
                /\ agentic.final_time_saved_low_pct
                       <= agentic.final_time_saved_high_pct)
                   => output.val.time_saved_low_pct <= output.val.time_saved_high_pct

\* An adjustment of an ordered base item that raised its low bound, with room
\* left under the base ceiling.
C29_Witness ==
    /\ Done("apply_agentic_adjustment")
    /\ GateOpen
    /\ input.args[1].time_saved_low_pct <= input.args[1].time_saved_high_pct
    /\ input.args[1].time_saved_low_pct > 0
    /\ input.args[2].final_time_saved_low_pct > 0
    /\ output.val.time_saved_low_pct > input.args[1].time_saved_low_pct
    /\ output.val.time_saved_high_pct < input.args[1].ceiling_cap_pct

-----------------------------------------------------------------------------
(* scoring_engine.py: category and occupation aggregation *)

\* collections.Counter as the sequence of <<key, count>> in first-counted order.
CounterAdd(counter, ev) ==
    IF \E i \in 1..Len(counter) : counter[i][1] = ev
    THEN [i \in 1..Len(counter) |->
            IF counter[i][1] = ev THEN <<ev, counter[i][2] + 1>> ELSE counter[i]]
    ELSE Append(counter, <<ev, 1>>)

RECURSIVE CounterAddAll(_, _)
CounterAddAll(counter, evs) ==
    IF evs = <<>> THEN counter
    ELSE CounterAddAll(CounterAdd(counter, Head(evs)), Tail(evs))

\* for item in items: for ev in item.exposure_levels: counter[ev] += 1
RECURSIVE CountExposure(_, _)
CountExposure(counter, items) ==
    IF items = <<>> THEN counter
    ELSE CountExposure(CounterAddAll(counter, Head(items).exposure_levels),
                       Tail(items))

\* Counter.most_common(n): by decreasing count, ties in first-counted order.
RECURSIVE MostCommon(_, _)
MostCommon(counter, n) ==
    IF n = 0 \/ counter = <<>> THEN <<>>
    ELSE LET best == CHOOSE i \in 1..Len(counter) :
                        /\ \A j \in 1..Len(counter) : counter[j][2] <= counter[i][2]
                        /\ \A j \in 1..(i - 1) : counter[j][2] < counter[i][2]
             rest == [k \in 1..(Len(counter) - 1) |->
                        IF k < best THEN counter[k] ELSE counter[k + 1]]
         IN  <<counter[best]>> \o MostCommon(rest, n - 1)

Keys(pairs) == [i \in 1..Len(pairs) |-> pairs[i][1]]

RECURSIVE SumLow(_)
SumLow(items) ==
    IF items = <<>> THEN 0 ELSE Head(items).time_saved_low_pct + SumLow(Tail(items))

RECURSIVE SumHigh(_)
SumHigh(items) ==
    IF items = <<>> THEN 0 ELSE Head(items).time_saved_high_pct + SumHigh(Tail(items))

\* A slip that lists the first three vectors counted, whatever their counts.
summarize_category_first_counted(category, items) ==
    IF items = <<>>
    THEN [category |-> category,
          item_count |-> 0,
          avg_time_saved_low_pct |-> 0,
          avg_time_saved_high_pct |-> 0,
          dominant_exposure_vectors |-> <<>>,
          exposure_vector_distribution |-> [ev \in {} |-> 0],
          items |-> <<>>]
    ELSE LET counter == CountExposure(<<>>, items)
             dominant == Keys(SubSeq(counter, 1, Min(3, Len(counter))))
         IN  [category |-> category,
              item_count |-> Len(items),
              avg_time_saved_low_pct |-> RoundHalfEven(SumLow(items), Len(items)),
              avg_time_saved_high_pct |-> RoundHalfEven(SumHigh(items), Len(items)),
              dominant_exposure_vectors |-> dominant,
              exposure_vector_distribution |->
                  [ev \in {counter[i][1] : i \in 1..Len(counter)} |->
                      (CHOOSE p \in {counter[i] : i \in 1..Len(counter)} : p[1] = ev)[2]],
              items |-> items]

\* Aggregate the items of one category into a CategorySummary.
summarize_category(category, items) ==
    IF items = <<>>
    THEN [category |-> category,
          item_count |-> 0,
          avg_time_saved_low_pct |-> 0,
          avg_time_saved_high_pct |-> 0,
          dominant_exposure_vectors |-> <<>>,
          exposure_vector_distribution |-> [ev \in {} |-> 0],
          items |-> <<>>]
    ELSE LET counter == CountExposure(<<>>, items)
             dominant == Keys(MostCommon(counter, 3))
         IN  [category |-> category,
              item_count |-> Len(items),
              avg_time_saved_low_pct |-> RoundHalfEven(SumLow(items), Len(items)),
              avg_time_saved_high_pct |-> RoundHalfEven(SumHigh(items), Len(items)),
              dominant_exposure_vectors |-> dominant,
              exposure_vector_distribution |->
                  [ev \in {counter[i][1] : i \in 1..Len(counter)} |->
                      (CHOOSE p \in {counter[i] : i \in 1..Len(counter)} : p[1] = ev)[2]],
              items |-> items]

\* Category weights, as fractions; .get(category, 0.05) for the others.
CATEGORY_WEIGHTS ==
    [c \in {"tasks", "work_activities", "skills", "technology_skills", "knowledge",
            "abilities", "detailed_work_activities", "work_context", "work_styles"} |->
        CASE c = "tasks" -> Frac(25)
          [] c = "work_activities" -> Frac(20)
          [] c = "skills" -> Frac(15)
          [] c = "technology_skills" -> Frac(12)
          [] c = "knowledge" -> Frac(8)
          [] c = "abilities" -> Frac(7)
          [] c = "detailed_work_activities" -> Frac(5)
          [] c = "work_context" -> Frac(4)
          [] c = "work_styles" -> Frac(4)]

\* A slip that gives a category absent from the table no weight at all.
CategoryWeight_no_default(category) ==
    IF category \in DOMAIN CATEGORY_WEIGHTS THEN CATEGORY_WEIGHTS[category]
    ELSE 0

CategoryWeight(category) ==
    IF category \in DOMAIN CATEGORY_WEIGHTS THEN CATEGORY_WEIGHTS[category]
    ELSE Frac(5)

RECURSIVE WeightedLow(_)
WeightedLow(summaries) ==
    IF summaries = <<>> THEN 0
    ELSE Head(summaries).avg_time_saved_low_pct * CategoryWeight(Head(summaries).category)
         + WeightedLow(Tail(summaries))

RECURSIVE WeightedHigh(_)
WeightedHigh(summaries) ==
    IF summaries = <<>> THEN 0
    ELSE Head(summaries).avg_time_saved_high_pct * CategoryWeight(Head(summaries).category)
         + WeightedHigh(Tail(summaries))

RECURSIVE TotalWeight(_)
TotalWeight(summaries) ==
    IF summaries = <<>> THEN 0
    ELSE CategoryWeight(Head(summaries).category) + TotalWeight(Tail(summaries))

\* for cs in category_summaries: for ev in cs.dominant_exposure_vectors: count
RECURSIVE CountDominant(_, _)
CountDominant(counter, summaries) ==
    IF summaries = <<>> THEN counter
    ELSE CountDominant(CounterAddAll(counter, Head(summaries).dominant_exposure_vectors),
                       Tail(summaries))

\* A slip that makes the breakpoints inclusive.
risk_label_inclusive(low_pct, high_pct) ==
    LET twice_mid == low_pct + high_pct
    IN  IF twice_mid <= 2 * 100 THEN "Low"
        ELSE IF twice_mid <= 2 * 250 THEN "Moderate"
        ELSE IF twice_mid <= 2 * 400 THEN "Significant"
        ELSE IF twice_mid <= 2 * 600 THEN "High"
        ELSE "Very High"

\* AutomationAlert.risk_label: from the midpoint (low + high) / 2, in percent.
risk_label(low_pct, high_pct) ==
    LET twice_mid == low_pct + high_pct
    IN  IF twice_mid < 2 * 100 THEN "Low"
        ELSE IF twice_mid < 2 * 250 THEN "Moderate"
        ELSE IF twice_mid < 2 * 400 THEN "Significant"
        ELSE IF twice_mid < 2 * 600 THEN "High"
        ELSE "Very High"

\* The occupation-level alert: the weighted composite over the summaries.
build_automation_alert(soc_code, occupation_title, summaries) ==
    LET total_weight == TotalWeight(summaries)
        overall_low == IF total_weight > 0
                       THEN RoundHalfEven(WeightedLow(summaries), total_weight)
                       ELSE 0
        overall_high == IF total_weight > 0
                        THEN RoundHalfEven(WeightedHigh(summaries), total_weight)
                        ELSE 0
    IN  [soc_code |-> soc_code,
         occupation_title |-> occupation_title,
         overall_time_saved_low_pct |-> overall_low,
         overall_time_saved_high_pct |-> overall_high,
         overall_automation_risk_label |-> risk_label(overall_low, overall_high),
         dominant_exposure_vectors |-> Keys(MostCommon(CountDominant(<<>>, summaries), 3)),
         category_summaries |-> summaries,
         deltas |-> <<>>,
         methodology_version |-> "1.0",
         discount_factors_applied |-> DEFAULT_DISCOUNT_FACTORS]

-----------------------------------------------------------------------------
(* The step harness: one call of one agentic step or aggregation per behaviour *)

MaxBonusUnits == 7

MaxAdjustedSteps == 30

MaxItems == 3

MaxSummaries == 2

\* Workflow units told apart by their suitability, on both sides of the
\* AS >= 2 threshold.
BonusUnits ==
    {[unit |-> "tool_actions",
      time_share_pct |-> Frac(10),
      agentic_suitability |-> as,
      execution_automation_pct |-> Frac(60),
      oversight_tax_pct |-> Frac(10),
      net_gain_pct |-> Frac(50),
      rationale |-> "r"] : as \in {1, 2, 3}}

\* One-decimal percentages as the agentic steps hand them on, 0.0 to 111.0
\* in steps of 3.7, with the smallest positive values, the two values of the
\* documented examples, and 115.0 (a raw estimate of 100 with the full bonus).
AdjustedPcts ==
    {k * 37 : k \in 0..MaxAdjustedSteps} \cup {1, 2, 3, 4, 50, 400, 1150}

Rates == {Frac(0), Frac(15), Frac(50), Frac(100)}

\* Items for summarize_category: score_item's results over exposure lists
\* that tie, repeat across items, name one vector twice and exceed three
\* distinct vectors.
SummaryItems ==
    {score_item("item", "tasks", exp, <<s>>, "pure_drafting", "r", "", None).val :
        exp \in {<<"E1">>, <<"E2", "E2">>, <<"E2", "E1">>, <<"E5", "E4", "E3", "E2">>},
        s \in {x \in SubtaskScores :
                  \/ /\ x.baseline_share_pct = Frac(100)
                     /\ x.efficiency_gain_low = Frac(20)
                  \/ /\ x.baseline_share_pct = Frac(50)
                     /\ x.efficiency_gain_low = Frac(80)
                     /\ x.efficiency_gain_high = Frac(100)}}

\* Items whose bounds sit on and around the risk-label breakpoints: one
\* subtask of share 1.0, gains in thousandths, and an explicit zero discount.
AlertGainPairs ==
    {<<g, g>> : g \in {99, 100, 249, 250, 399, 400, 599, 600, 601}}
    \cup {<<99, 601>>, <<601, 99>>}

AlertItems ==
    {score_item("item", "tasks", <<"E1">>,
                <<[bucket |-> "transformation_drafting",
                   baseline_share_pct |-> Frac(100),
                   exposure_levels |-> <<"E1">>,
                   leverage_level |-> "high",
                   efficiency_gain_low |-> (g[1] * ONE) \div 1000,
                   efficiency_gain_high |-> (g[2] * ONE) \div 1000]>>,
                "pure_drafting", "r", "",
                Some(<<DiscountFactor("none", Frac(0))>>)).val :
        g \in AlertGainPairs}

\* Two categories of the weight table and one absent from it.
AlertCategories == {"tasks", "work_styles", "interests"}

\* Category summaries as summarize_category returns them.
AlertSummaries ==
    {summarize_category(c, <<it>>) : c \in AlertCategories, it \in AlertItems}
    \cup {summarize_category(c, <<>>) : c \in AlertCategories}

StepCalls ==
    {[op |-> "compute_raw_time_saved", args |-> <<sts>>] :
        sts \in SeqsUpTo(SubtaskScores, 1)}
    \cup {[op |-> "compute_raw_agentic_time_saved", args |-> <<ws>>] :
            ws \in SeqsUpTo(WorkflowUnitScores, 1)}
    \cup {[op |-> "apply_compounding_bonus", args |-> <<raw, ws>>] :
            raw \in {0, 270, 900}, ws \in SeqsUpTo(BonusUnits, MaxBonusUnits)}
    \cup {[op |-> "apply_agentic_discounts", args |-> <<a, er, tc>>] :
            a \in AdjustedPcts, er \in Rates, tc \in Rates}
    \cup {[op |-> "compute_maturity_range", args |-> <<a, m>>] :
            a \in AdjustedPcts, m \in AgentMaturityLevel}
    \cup {[op |-> "summarize_category", args |-> <<c, items>>] :
            c \in {"tasks"}, items \in SeqsUpTo(SummaryItems, MaxItems)}
    \cup {[op |-> "build_automation_alert", args |-> <<summaries>>] :
            summaries \in SeqsUpTo(AlertSummaries, MaxSummaries)}

InitSteps ==
    /\ input \in StepCalls
    /\ output = None
    /\ pc = "call"
    /\ NoScorer

CallComputeRawTimeSaved ==
    /\ pc = "call"
    /\ input.op = "compute_raw_time_saved"
    /\ output' = Returned(compute_raw_time_saved(input.args[1]))
    /\ pc' = "return"
    /\ UNCHANGED <<input, scorerVars>>

CallApplyCompoundingBonus ==
    /\ pc = "call"
    /\ input.op = "apply_compounding_bonus"
    /\ output' = Returned(apply_compounding_bonus(input.args[1], input.args[2]))
    /\ pc' = "return"
    /\ UNCHANGED <<input, scorerVars>>

CallApplyAgenticDiscounts ==
    /\ pc = "call"
    /\ input.op = "apply_agentic_discounts"
    /\ output' = Returned(apply_agentic_discounts(input.args[1], input.args[2],
                                                  input.args[3]))
    /\ pc' = "return"
    /\ UNCHANGED <<input, scorerVars>>

CallComputeMaturityRange ==
    /\ pc = "call"
    /\ input.op = "compute_maturity_range"
    /\ output' = Returned(compute_maturity_range(input.args[1], input.args[2]))
    /\ pc' = "return"
    /\ UNCHANGED <<input, scorerVars>>

CallSummarizeCategory ==
    /\ pc = "call"
    /\ input.op = "summarize_category"
    /\ output' = Returned(summarize_category(input.args[1], input.args[2]))
    /\ pc' = "return"
    /\ UNCHANGED <<input, scorerVars>>

CallBuildAutomationAlert ==
    /\ pc = "call"
    /\ input.op = "build_automation_alert"
    /\ output' = Returned(build_automation_alert("00-0000.00", "Occupation",
                                                 input.args[1]))
    /\ pc' = "return"
    /\ UNCHANGED <<input, scorerVars>>

NextSteps ==
    \/ CallComputeRawTimeSaved
    \/ CallComputeRawAgenticTimeSaved
    \/ CallApplyCompoundingBonus
    \/ CallApplyAgenticDiscounts
    \/ CallComputeMaturityRange
    \/ CallSummarizeCategory
    \/ CallBuildAutomationAlert

SpecSteps == InitSteps /\ [][NextSteps]_vars

-----------------------------------------------------------------------------
(* Properties of the agentic steps and the aggregation, checked under SpecSteps *)

\* The number of units of the list with suitability 2 or more.
HighUnits(ws) == Cardinality({i \in 1..Len(ws) : ws[i].agentic_suitability >= 2})

\* C11: for a non-empty workflow-score list apply_compounding_bonus returns a
\* bonus in [3, 15] equal (to one decimal) to 3 + 12 * high / total, and a
\* first component raw_pct + bonus; the bonus is 3 exactly when no unit has
\* suitability >= 2 and 15 exactly when all have.
C11_CompoundingBonusRange ==
    Done("apply_compounding_bonus") /\ Len(input.args[2]) > 0 =>
        LET raw_pct == input.args[1]
            n == Len(input.args[2])
            k == HighUnits(input.args[2])
            bonus == output.val[2]
        IN  /\ 30 <= bonus /\ bonus <= 150
            /\ 2 * (bonus * n - (3 * n + 12 * k) * 10) <= n
            /\ 2 * ((3 * n + 12 * k) * 10 - bonus * n) <= n
            /\ output.val[1] = raw_pct + bonus
            /\ (bonus = 30 <=> k = 0)
            /\ (bonus = 150 <=> k = n)

\* Seven units, some but not all of suitability >= 2, with a bonus that had
\* to be rounded to one decimal.
C11_Witness ==
    /\ Done("apply_compounding_bonus")
    /\ Len(input.args[2]) = 7
    /\ HighUnits(input.args[2]) = 1
    /\ output.val[2] = 47
    /\ output.val[1] = input.args[1] + 47

\* C12: apply_agentic_discounts returns max(adjusted_pct - exception_rate *
\* takeover_cost * 100, 0) to one decimal: never negative, never above a
\* non-negative adjusted_pct; (40.0, 0.15, 0.5) gives 32.5 and
\* (5.0, 0.5, 0.5) gives 0.0.
C12_AgenticDiscountFloored ==
    Done("apply_agentic_discounts") =>
        LET adjusted_pct == input.args[1]
            exception_rate == input.args[2]
            takeover_cost == input.args[3]
            exact == Max(adjusted_pct * ONE
                            - Mul(exception_rate, takeover_cost) * 1000, 0)
        IN  /\ output.val >= 0
            /\ (adjusted_pct >= 0 => output.val <= adjusted_pct)
            /\ 2 * (output.val * ONE - exact) <= ONE
            /\ 2 * (exact - output.val * ONE) <= ONE
            /\ (adjusted_pct = 400 /\ exception_rate = Frac(15)
                    /\ takeover_cost = Frac(50) => output.val = 325)
            /\ (adjusted_pct = 50 /\ exception_rate = Frac(50)
                    /\ takeover_cost = Frac(50) => output.val = 0)

\* A positive estimate wiped out by a larger penalty.
C12_Witness ==
    /\ Done("apply_agentic_discounts")
    /\ input.args[1] > 0
    /\ Mul(input.args[2], input.args[3]) * 1000 > input.args[1] * ONE
    /\ output.val = 0

\* The width high - low of a range.
Width(range) == range[2] - range[1]

\* A Level-4 call whose high end stays below the cap of 100.
Level4BelowCap ==
    /\ Done("compute_maturity_range")
    /\ input.args[2] = 4
    /\ input.args[1] * 15 <= 1000 * 10

\* C20 as stated: for the same adjusted estimate below the 100 cap, the
\* Level-4 range is roughly 1.5 times as wide as the Level-1 range (here:
\* between 1.25 and 1.75 times).
C20_Level4WidthOneAndAHalfTimes ==
    Level4BelowCap =>
        LET w4 == Width(output.val)
            w1 == Width(compute_maturity_range(input.args[1], 1))
        IN  /\ 4 * w4 >= 5 * w1
            /\ 4 * w4 <= 7 * w1

\* C20 as amended: for the same adjusted estimate below the 100 cap, the
\* Level-4 range is twice as wide as the Level-1 range, up to the one-decimal
\* rounding of the four bounds (at most 0.3 points).
C20_Level4WidthTwiceLevel1 ==
    Level4BelowCap =>
        LET w4 == Width(output.val)
            w1 == Width(compute_maturity_range(input.args[1], 1))
        IN  /\ w4 - 2 * w1 <= 3
            /\ 2 * w1 - w4 <= 3

\* An estimate of 40.0: Level 4 gives 36.0-60.0, Level 1 gives 8.0-20.0.
C20_Witness ==
    /\ Level4BelowCap
    /\ input.args[1] = 400
    /\ output.val = <<360, 600>>
    /\ compute_maturity_range(input.args[1], 1) = <<80, 200>>

\* The label the breakpoints 10, 25, 40, 60 give to twice a midpoint, in
\* tenths of a percent.
LabelOfTwiceMidpoint(twice_mid) ==
    CASE twice_mid < 200 -> "Low"
      [] twice_mid >= 200 /\ twice_mid < 500 -> "Moderate"
      [] twice_mid >= 500 /\ twice_mid < 800 -> "Significant"
      [] twice_mid >= 800 /\ twice_mid < 1200 -> "High"
      [] twice_mid >= 1200 -> "Very High"

\* C16: the risk label is a function of the midpoint (low + high) / 2 only,
\* with strict upper breakpoints 10, 25, 40, 60 (9.9, 24.9, 39.9, 59.9, 60.1
\* give Low, Moderate, Significant, High, Very High; exactly 10, 25, 40, 60
\* fall in the higher class), and the label build_automation_alert stores is
\* that function of the stored composite bounds.
C16_RiskLabelFromMidpoint ==
    Done("build_automation_alert") =>
        LET twice_mid == output.val.overall_time_saved_low_pct
                            + output.val.overall_time_saved_high_pct
            label == output.val.overall_automation_risk_label
        IN  /\ label = LabelOfTwiceMidpoint(twice_mid)
            /\ (twice_mid = 198 => label = "Low")
            /\ (twice_mid = 200 => label = "Moderate")
            /\ (twice_mid = 498 => label = "Moderate")
            /\ (twice_mid = 500 => label = "Significant")
            /\ (twice_mid = 798 => label = "Significant")
            /\ (twice_mid = 800 => label = "High")
            /\ (twice_mid = 1198 => label = "High")
            /\ (twice_mid = 1200 => label = "Very High")
            /\ (twice_mid = 1202 => label = "Very High")

\* An alert whose composite midpoint is exactly 25.0, labelled Significant.
C16_Witness ==
    /\ Done("build_automation_alert")
    /\ output.val.overall_time_saved_low_pct = 250
    /\ output.val.overall_time_saved_high_pct = 250
    /\ output.val.overall_automation_risk_label = "Significant"

\* The fixed category weights, in hundredths; 5 for a category not listed.
WeightHundredths(category) ==
    CASE category = "tasks" -> 25
      [] category = "work_activities" -> 20
      [] category = "skills" -> 15
      [] category = "technology_skills" -> 12
      [] category = "knowledge" -> 8
      [] category = "abilities" -> 7
      [] category = "detailed_work_activities" -> 5
      [] category = "work_context" -> 4
      [] category = "work_styles" -> 4
      [] OTHER -> 5

RECURSIVE SumOver(_, _)
SumOver(Term(_), summaries) ==
    IF summaries = <<>> THEN 0
    ELSE Term(Head(summaries)) + SumOver(Term, Tail(summaries))

\* v is sum / weight to one decimal.
IsRounded(v, sum, weight) ==
    /\ 2 * (v * weight - sum) <= weight
    /\ 2 * (sum - v * weight) <= weight

\* C17: the overall low/high composite equals sum(avg_pct * w) / sum(w) over
\* the summaries present (to one decimal), w the fixed category weight and
\* 0.05 for a category absent from the table; so the composite lies between
\* the smallest and largest category average, and overall low <= overall
\* high whenever every summary has avg low <= avg high.
C17_CompositeIsWeightedMean ==
    Done("build_automation_alert") /\ input.args[1] # <<>> =>
        LET summaries == input.args[1]
            W(s) == WeightHundredths(s.category)
            WLow(s) == s.avg_time_saved_low_pct * WeightHundredths(s.category)
            WHigh(s) == s.avg_time_saved_high_pct * WeightHundredths(s.category)
            low == output.val.overall_time_saved_low_pct
            high == output.val.overall_time_saved_high_pct
            idx == 1..Len(summaries)
        IN  /\ IsRounded(low, SumOver(WLow, summaries), SumOver(W, summaries))
            /\ IsRounded(high, SumOver(WHigh, summaries), SumOver(W, summaries))
            /\ \E i \in idx : summaries[i].avg_time_saved_low_pct <= low
            /\ \E i \in idx : summaries[i].avg_time_saved_low_pct >= low
            /\ \E i \in idx : summaries[i].avg_time_saved_high_pct <= high
            /\ \E i \in idx : summaries[i].avg_time_saved_high_pct >= high
            /\ ((\A i \in idx : summaries[i].avg_time_saved_low_pct
                                    <= summaries[i].avg_time_saved_high_pct)
                    => low <= high)

\* A tasks summary at 9.9 and a summary of a category absent from the table
\* at 60.1: (9.9 * 0.25 + 60.1 * 0.05) / 0.30 = 18.27, stored as 18.3.
C17_Witness ==
    /\ Done("build_automation_alert")
    /\ Len(input.args[1]) = 2
    /\ input.args[1][1].category = "tasks"
    /\ input.args[1][1].avg_time_saved_low_pct = 99
    /\ input.args[1][2].category = "interests"
    /\ input.args[1][2].avg_time_saved_low_pct = 601
    /\ output.val.overall_time_saved_low_pct = 183

\* The exposure vectors of the items, in the order they are counted.
RECURSIVE CountedVectors(_)
CountedVectors(items) ==
    IF items = <<>> THEN <<>>
    ELSE Head(items).exposure_levels \o CountedVectors(Tail(items))

Occurrences(seq, ev) == Cardinality({i \in 1..Len(seq) : seq[i] = ev})

FirstCounted(seq, ev) ==
    CHOOSE i \in 1..Len(seq) : seq[i] = ev /\ \A j \in 1..(i - 1) : seq[j] # ev

\* ev ranks before other: more occurrences, or as many and counted first.
RanksBefore(seq, ev, other) ==
    \/ Occurrences(seq, ev) > Occurrences(seq, other)
    \/ /\ Occurrences(seq, ev) = Occurrences(seq, other)
       /\ FirstCounted(seq, ev) < FirstCounted(seq, other)

\* C18: summarize_category on a non-empty item list returns item_count = the
\* number of items and dominant_exposure_vectors = at most 3 distinct
\* vectors, those with the highest occurrence counts across the items'
\* exposure_levels, by decreasing count, ties in first-counted order (not
\* alphabetical); items exposed via E1 only and E2 only give E1, E2.
C18_DominantVectorsByCount ==
    Done("summarize_category") /\ input.args[2] # <<>> =>
        LET items == input.args[2]
            seq == CountedVectors(items)
            vectors == {seq[i] : i \in 1..Len(seq)}
            dominant == output.val.dominant_exposure_vectors
            chosen == {dominant[i] : i \in 1..Len(dominant)}
        IN  /\ output.val.item_count = Len(items)
            /\ Len(dominant) = Min(3, Cardinality(vectors))
            /\ Cardinality(chosen) = Len(dominant)
            /\ chosen \subseteq vectors
            /\ \A i \in 1..Len(dominant) : \A j \in (i + 1)..Len(dominant) :
                   RanksBefore(seq, dominant[i], dominant[j])
            /\ \A ev \in chosen : \A other \in vectors \ chosen :
                   RanksBefore(seq, ev, other)
            /\ (Len(items) = 2 /\ items[1].exposure_levels = <<"E1">>
                    /\ items[2].exposure_levels = <<"E2">>
                    => dominant = <<"E1", "E2">>)

\* Items exposed via E5/E4/E3/E2, via E2/E1 and via E1: E2 and E1 both occur
\* twice with E2 counted first; E5, E4, E3 occur once with E5 counted first.
\* The result is E2, E1, E5, where alphabetical ties would give E1, E2, E3.
C18_Witness ==
    /\ Done("summarize_category")
    /\ Len(input.args[2]) = 3
    /\ input.args[2][1].exposure_levels = <<"E5", "E4", "E3", "E2">>
    /\ input.args[2][2].exposure_levels = <<"E2", "E1">>
    /\ input.args[2][3].exposure_levels = <<"E1">>
    /\ output.val.item_count = 3
    /\ output.val.dominant_exposure_vectors = <<"E2", "E1", "E5">>

\* The call is one of the aggregation functions on its degenerate input.
DegenerateCall ==
    \/ input.op = "summarize_category" /\ input.args[2] = <<>>
    \/ input.op = "build_automation_alert" /\ input.args[1] = <<>>
    \/ input.op = "compute_raw_time_saved" /\ input.args[1] = <<>>
    \/ input.op = "compute_raw_agentic_time_saved" /\ input.args[1] = <<>>
    \/ input.op = "apply_compounding_bonus" /\ input.args[2] = <<>>

\* C19: every aggregation function returns a defined zero/empty result on
\* degenerate input instead of raising: summarize_category([]) gives count 0,
\* averages 0.0, no dominant vectors, empty distribution and item list;
\* build_automation_alert([]) gives composite 0/0, label Low;
\* compute_raw_time_saved([]) gives (0.0, 0.0);
\* compute_raw_agentic_time_saved([]) gives 0.0; apply_compounding_bonus with
\* zero units gives bonus 0 and the value unchanged.
C19_DegenerateInputsGiveZero ==
    pc = "return" /\ DegenerateCall =>
        /\ output.exc = "None"
        /\ (input.op = "summarize_category" =>
                /\ output.val.category = input.args[1]
                /\ output.val.item_count = 0
                /\ output.val.avg_time_saved_low_pct = 0
                /\ output.val.avg_time_saved_high_pct = 0
                /\ output.val.dominant_exposure_vectors = <<>>
                /\ DOMAIN output.val.exposure_vector_distribution = {}
                /\ output.val.items = <<>>)
        /\ (input.op = "build_automation_alert" =>
                /\ output.val.overall_time_saved_low_pct = 0
                /\ output.val.overall_time_saved_high_pct = 0
                /\ output.val.overall_automation_risk_label = "Low"
                /\ output.val.category_summaries = <<>>)
        /\ (input.op = "compute_raw_time_saved" => output.val = <<0, 0>>)
        /\ (input.op = "compute_raw_agentic_time_saved" => output.val = 0)
        /\ (input.op = "apply_compounding_bonus" =>
                output.val = <<input.args[1], 0>>)

\* A positive estimate handed to apply_compounding_bonus with no units came
\* back unchanged with bonus 0.
C19_Witness ==
    /\ Done("apply_compounding_bonus")
    /\ input.args[2] = <<>>
    /\ input.args[1] = 270
    /\ output.val = <<270, 0>>


\* The number of items of a list that are exposed to a vector.
ItemsExposedTo(items, ev) ==
    Cardinality({i \in 1..Len(items) :
                    \E j \in 1..Len(items[i].exposure_levels) :
                        items[i].exposure_levels[j] = ev})

\* C27: summarize_category counts one vote per item per exposure vector:
\* each entry of exposure_vector_distribution is the number of items exposed
\* to that vector, so every count is at least 1 and at most item_count.
C27_OneVotePerItemPerVector ==
    Done("summarize_category") =>
        LET items == input.args[2]
            dist == output.val.exposure_vector_distribution
        IN  \A ev \in DOMAIN dist :
                /\ dist[ev] = ItemsExposedTo(items, ev)
                /\ dist[ev] >= 1
                /\ dist[ev] <= output.val.item_count


\* The range compute_maturity_range gives the call's estimate at level m.
RangeAt(m) == compute_maturity_range(input.args[1], m)

\* A compute_maturity_range call on a positive estimate.
PositiveRangeCall == Done("compute_maturity_range") /\ input.args[1] > 0

\* The high end of the call's level stays below the cap of 100.
HighBelowCap ==
    input.args[1] * MATURITY_TIME_SAVED_BANDS[input.args[2]][2] < 1000 * Frac(50)

\* C28 as stated: for every adjusted_pct > 0 and maturity levels m1 < m2 the
\* range of m2 has a strictly greater high bound than that of m1, and a low
\* bound and a width (high - low) at least as large.
C28_HigherMaturityHigherWider ==
    PositiveRangeCall =>
        \A m1 \in 1..(input.args[2] - 1) :
            /\ output.val[2] > RangeAt(m1)[2]
            /\ output.val[1] >= RangeAt(m1)[1]
            /\ Width(output.val) >= Width(RangeAt(m1))

\* C28 as amended: for every adjusted_pct > 0 and maturity levels m1 < m2 the
\* range of m2 has a high and a low bound at least as large as those of m1;
\* while the high end of m2 is below the 100 cap, its high bound is strictly
\* greater for adjusted_pct >= 0.4 and its width is at least that of m1 to
\* within the one-decimal rounding of the bounds (0.2 points).
C28_HigherMaturityHigherBounds ==
    PositiveRangeCall =>
        \A m1 \in 1..(input.args[2] - 1) :
            /\ output.val[2] >= RangeAt(m1)[2]
            /\ output.val[1] >= RangeAt(m1)[1]
            /\ HighBelowCap =>
                   /\ input.args[1] >= 4 => output.val[2] > RangeAt(m1)[2]
                   /\ Width(output.val) >= Width(RangeAt(m1)) - 2

\* An estimate of 40.0 at Level 4, 36.0-60.0, above Level 3's 24.0-48.0 and
\* as wide.
C28_Witness ==
    /\ PositiveRangeCall
    /\ input.args = <<400, 4>>
    /\ HighBelowCap
    /\ output.val = <<360, 600>>
    /\ RangeAt(3) = <<240, 480>>

\* The cases the amendment sets apart: a high end at the cap, where Level 4
\* is no higher and is narrower than Level 3, and an estimate of 0.3, where
\* rounding makes Level 4 (0.3-0.4) narrower than Level 3 (0.2-0.4).
C28_WitnessAtCap ==
    /\ PositiveRangeCall
    /\ input.args[2] = 4
    /\ ~HighBelowCap
    /\ output.val[2] = RangeAt(3)[2]
    /\ Width(output.val) < Width(RangeAt(3))

C28_WitnessRounding ==
    /\ PositiveRangeCall
    /\ input.args = <<3, 4>>
    /\ output.val = <<3, 4>>
    /\ RangeAt(3) = <<2, 4>>


\* v, in tenths of a percent, is exact / 0.50 rounded to one decimal.
IsRoundedHalf(v, exact) ==
    /\ 2 * (v * Frac(50) - exact) <= Frac(50)
    /\ 2 * (exact - v * Frac(50)) <= Frac(50)

\* C30: for every adjusted_pct >= 0 and every maturity level
\* compute_maturity_range returns 0 <= low <= high <= 100, where low is
\* adjusted_pct * band_low / 0.50 floored at 0 and high is
\* adjusted_pct * band_high / 0.50 capped at 100, each to one decimal.
C30_MaturityRangeOrderedWithin100 ==
    (Done("compute_maturity_range") /\ input.args[1] >= 0) =>
        LET a == input.args[1]
            band == MATURITY_TIME_SAVED_BANDS[input.args[2]]
        IN  /\ 0 <= output.val[1]
            /\ output.val[1] <= output.val[2]
            /\ output.val[2] <= 1000
            /\ IsRoundedHalf(output.val[1], Max(a * band[1], 0))
            /\ IsRoundedHalf(output.val[2], Min(a * band[2], 1000 * Frac(50)))

-----------------------------------------------------------------------------
(* scorer.py: ingestion of the LLM's assessment records *)

\* A parsed JSON value: an object (its members as a record) or anything else.
JsonObject(members) == [json |-> "object", obj |-> members]

JsonString == [json |-> "string"]

Has(d, key) == key \in DOMAIN d

\* SubtaskScore(bucket=SubtaskBucket(st["bucket"]), ...) for one subtask entry.
build_subtask_score(st) ==
    IF ~Has(st, "bucket") THEN Raised("KeyError")
    ELSE IF st.bucket \notin SubtaskBucket THEN Raised("ValueError")
    ELSE IF ~Has(st, "baseline_share_pct") \/ ~Has(st, "exposure_levels")
        THEN Raised("KeyError")
    ELSE IF \E i \in 1..Len(st.exposure_levels) :
                st.exposure_levels[i] \notin ExposureLevel
        THEN Raised("ValueError")
    ELSE IF ~Has(st, "leverage_level") THEN Raised("KeyError")
    ELSE IF st.leverage_level \notin LeverageLevel THEN Raised("ValueError")
    ELSE IF ~Has(st, "efficiency_gain_low") \/ ~Has(st, "efficiency_gain_high")
        THEN Raised("KeyError")
    ELSE LET score == [bucket |-> st.bucket,
                       baseline_share_pct |-> st.baseline_share_pct,
                       exposure_levels |-> st.exposure_levels,
                       leverage_level |-> st.leverage_level,
                       efficiency_gain_low |-> st.efficiency_gain_low,
                       efficiency_gain_high |-> st.efficiency_gain_high]
         IN  IF SubtaskScoreValid(score) THEN Returned(score)
             ELSE Raised("ValidationError")

\* for st in data["subtasks"]: subtask_scores.append(SubtaskScore(...))
RECURSIVE build_subtask_scores(_, _)
build_subtask_scores(subtasks, acc) ==
    IF subtasks = <<>> THEN Returned(acc)
    ELSE LET r == build_subtask_score(Head(subtasks))
         IN  IF r.exc = "None"
             THEN build_subtask_scores(Tail(subtasks), Append(acc, r.val))
             ELSE r

\* Scorer._build_scored_item: one base record into a ScoredItem.
build_scored_item(data, category) ==
    IF data.json # "object" THEN Raised("TypeError")
    ELSE LET d == data.obj
         IN  IF ~Has(d, "exposure_levels") THEN Raised("KeyError")
             ELSE IF \E i \in 1..Len(d.exposure_levels) :
                        d.exposure_levels[i] \notin ExposureLevel
                 THEN Raised("ValueError")
             ELSE IF ~Has(d, "ceiling_category") THEN Raised("KeyError")
             ELSE IF d.ceiling_category \notin CeilingCategory THEN Raised("ValueError")
             ELSE IF ~Has(d, "subtasks") THEN Raised("KeyError")
             ELSE LET sub == build_subtask_scores(d.subtasks, <<>>)
                  IN  IF sub.exc # "None" THEN sub
                      ELSE IF ~Has(d, "item_name") \/ ~Has(d, "rationale")
                          THEN Raised("KeyError")
                      ELSE score_item(d.item_name, category, d.exposure_levels,
                                      sub.val, d.ceiling_category, d.rationale,
                                      IF Has(d, "advancement_notes")
                                      THEN d.advancement_notes ELSE "",
                                      None)

\* The except clause of both ingestion loops: logger.warning(...,
\* sd.get("item_name"), e) -- .get exists on a dict only.
WarningRaises(sd) == sd.json # "object"

\* Scorer.score_category_items, the loop over scored_data: a record that fails
\* is logged and skipped; what the handler itself raises leaves the loop.
RECURSIVE score_category_loop(_, _, _)
score_category_loop(todo, category, acc) ==
    IF todo = <<>> THEN Returned(acc)
    ELSE LET r == build_scored_item(Head(todo), category)
         IN  IF r.exc = "None"
             THEN score_category_loop(Tail(todo), category, Append(acc, r.val))
             ELSE IF WarningRaises(Head(todo)) THEN Raised("AttributeError")
             ELSE score_category_loop(Tail(todo), category, acc)

\* WorkflowUnitScore(unit=WorkflowUnit(ws["unit"]), ...) for one unit entry.
build_workflow_unit_score(ws) ==
    IF ~Has(ws, "unit") THEN Raised("KeyError")
    ELSE IF ws.unit \notin WorkflowUnit THEN Raised("ValueError")
    ELSE IF ~Has(ws, "time_share_pct") \/ ~Has(ws, "agentic_suitability")
        THEN Raised("KeyError")
    ELSE IF ws.agentic_suitability \notin AgenticSuitability THEN Raised("ValueError")
    ELSE IF ~Has(ws, "execution_automation_pct") \/ ~Has(ws, "oversight_tax_pct")
            \/ ~Has(ws, "net_gain_pct") \/ ~Has(ws, "rationale")
        THEN Raised("KeyError")
    ELSE LET score == [unit |-> ws.unit,
                       time_share_pct |-> ws.time_share_pct,
                       agentic_suitability |-> ws.agentic_suitability,
                       execution_automation_pct |-> ws.execution_automation_pct,
                       oversight_tax_pct |-> ws.oversight_tax_pct,
                       net_gain_pct |-> ws.net_gain_pct,
                       rationale |-> ws.rationale]
         IN  IF WorkflowUnitScoreValid(score) THEN Returned(score)
             ELSE Raised("ValidationError")

RECURSIVE build_workflow_scores(_, _)
build_workflow_scores(units, acc) ==
    IF units = <<>> THEN Returned(acc)
    ELSE LET r == build_workflow_unit_score(Head(units))
         IN  IF r.exc = "None"
             THEN build_workflow_scores(Tail(units), Append(acc, r.val))
             ELSE r

\* Scorer._build_agentic_score: one agentic record into an AgenticImpactScore.
build_agentic_score(data, category) ==
    IF data.json # "object" THEN Raised("TypeError")
    ELSE LET d == data.obj
         IN  IF ~Has(d, "workflow_scores") THEN Raised("KeyError")
             ELSE LET ws == build_workflow_scores(d.workflow_scores, <<>>)
                  IN  IF ws.exc # "None" THEN ws
                      ELSE IF ~Has(d, "item_name") \/ ~Has(d, "recommended_mode")
                          THEN Raised("KeyError")
                      ELSE IF d.recommended_mode \notin OperatingMode
                          THEN Raised("ValueError")
                      ELSE IF ~Has(d, "mode_rationale") \/ ~Has(d, "exception_rate")
                              \/ ~Has(d, "takeover_cost") \/ ~Has(d, "current_maturity")
                          THEN Raised("KeyError")
                      ELSE IF d.current_maturity \notin AgentMaturityLevel
                          THEN Raised("ValueError")
                      ELSE IF ~Has(d, "agentic_ceiling") THEN Raised("KeyError")
                      ELSE IF d.agentic_ceiling \notin AgenticCeilingCategory
                          THEN Raised("ValueError")
                      ELSE IF ~Has(d, "knowledge_work_type") THEN Raised("KeyError")
                      ELSE IF d.knowledge_work_type \notin KnowledgeWorkType
                          THEN Raised("ValueError")
                      ELSE IF ~Has(d, "stakes_level") THEN Raised("KeyError")
                      ELSE IF d.stakes_level \notin StakesLevel THEN Raised("ValueError")
                      ELSE IF ~Has(d, "agentic_rationale") THEN Raised("KeyError")
                      ELSE score_agentic_item(
                               d.item_name, category, d.recommended_mode,
                               d.mode_rationale, ws.val, d.exception_rate,
                               d.takeover_cost, d.current_maturity, d.agentic_ceiling,
                               d.knowledge_work_type, d.stakes_level,
                               d.agentic_rationale,
                               IF Has(d, "advancement_notes")
                               THEN d.advancement_notes ELSE "",
                               IF Has(d, "near_term_projection")
                               THEN d.near_term_projection ELSE "")

\* Scorer.score_agentic_impact, the loop over agentic_data.
RECURSIVE score_agentic_loop(_, _, _)
score_agentic_loop(todo, category, acc) ==
    IF todo = <<>> THEN Returned(acc)
    ELSE LET r == build_agentic_score(Head(todo), category)
         IN  IF r.exc = "None"
             THEN score_agentic_loop(Tail(todo), category, Append(acc, r.val))
             ELSE IF WarningRaises(Head(todo)) THEN Raised("AttributeError")
             ELSE score_agentic_loop(Tail(todo), category, acc)

-----------------------------------------------------------------------------
(* What the LLM may answer: the elements of a parsed response array *)

MaxBatch == 2

SubtaskJson(share, gain_low, gain_high) ==
    [bucket |-> "transformation_drafting",
     baseline_share_pct |-> share,
     exposure_levels |-> <<"E1">>,
     leverage_level |-> "high",
     efficiency_gain_low |-> gain_low,
     efficiency_gain_high |-> gain_high]

BaseJson(name, exposure, ceiling, subtasks) ==
    JsonObject([item_name |-> name,
                exposure_levels |-> exposure,
                ceiling_category |-> ceiling,
                subtasks |-> subtasks,
                rationale |-> "r"])

\* Base records ingestion accepts; the second has efficiency_gain_low above
\* efficiency_gain_high, which SubtaskScore does not check.
GoodBaseElements ==
    {BaseJson("Task A", <<"E2", "E9">>, "pure_drafting",
              <<SubtaskJson(Frac(100), Frac(20), Frac(80))>>),
     BaseJson("Task B", <<"E1">>, "physical_execution",
              <<SubtaskJson(Frac(50), Frac(80), Frac(20))>>)}

\* Malformed records: a missing field, a wrong enum tag, a share out of range,
\* and an element that is no record at all.
BadBaseElements ==
    {JsonObject([item_name |-> "Bad Item"]),
     BaseJson("Bad Enum", <<"E99">>, "pure_drafting",
              <<SubtaskJson(Frac(100), Frac(20), Frac(80))>>),
     BaseJson("Bad Range", <<"E1">>, "pure_drafting",
              <<SubtaskJson(Frac(150), Frac(20), Frac(80))>>),
     JsonString}

BaseElements == GoodBaseElements \cup BadBaseElements

UnitJson(share, suitability, ea, ot, net) ==
    [unit |-> "tool_actions",
     time_share_pct |-> share,
     agentic_suitability |-> suitability,
     execution_automation_pct |-> ea,
     oversight_tax_pct |-> ot,
     net_gain_pct |-> net,
     rationale |-> "r"]

AgenticJson(name, units, exception_rate, takeover_cost, maturity, ceiling) ==
    JsonObject([item_name |-> name,
                recommended_mode |-> 2,
                mode_rationale |-> "r",
                workflow_scores |-> units,
                exception_rate |-> exception_rate,
                takeover_cost |-> takeover_cost,
                current_maturity |-> maturity,
                agentic_ceiling |-> ceiling,
                knowledge_work_type |-> "routine_cognitive",
                stakes_level |-> "low",
                agentic_rationale |-> "r"])

\* Agentic records whose every field is of its declared type and range; the
\* third drives the adjusted estimate to 105%, and the fourth states a net
\* gain of 0.30 beside an execution automation of 0.60 and an oversight tax
\* of 0.10.
TypedAgenticElements ==
    {AgenticJson("Task A", <<UnitJson(Frac(100), 3, Frac(60), Frac(10), Frac(50))>>,
                 Frac(10), Frac(50), 3, "standardized_backoffice"),
     AgenticJson("Task B", <<UnitJson(Frac(100), 0, Frac(10), Frac(30), 0 - Frac(20))>>,
                 Frac(0), Frac(0), 1, "physical_execution"),
     AgenticJson("Task A", <<UnitJson(Frac(100), 3, Frac(100), Frac(10), Frac(90))>>,
                 Frac(0), Frac(0), 4, "standardized_backoffice"),
     AgenticJson("Task B", <<UnitJson(Frac(100), 0, Frac(60), Frac(10), Frac(30))>>,
                 Frac(0), Frac(0), 2, "standardized_backoffice")}

BadAgenticElements ==
    {JsonObject([item_name |-> "Bad Item"]),
     AgenticJson("Bad Range", <<UnitJson(Frac(150), 3, Frac(60), Frac(10), Frac(50))>>,
                 Frac(10), Frac(50), 3, "standardized_backoffice"),
     JsonString}

AgenticElements == TypedAgenticElements \cup BadAgenticElements

\* What _parse_json_response makes of the response text: the array it holds,
\* or no array at all (ValueError).
NoArray == [array |-> FALSE]

Array(elements) == [array |-> TRUE, elements |-> elements]

BaseResponses == {NoArray} \cup {Array(e) : e \in SeqsUpTo(BaseElements, MaxBatch)}

AgenticResponses ==
    {NoArray} \cup {Array(e) : e \in SeqsUpTo(AgenticElements, MaxBatch)}

\* The onet_data argument: category -> number of raw items fetched for it.
OnetDataChoices ==
    {[c \in {"tasks", "skills"} |-> 1],
     [c \in {"tasks", "skills", "work_values"} |-> 1],
     [c \in {"tasks"} |-> 1],
     [c \in {"tasks", "skills"} |-> IF c = "skills" THEN 1 ELSE 0],
     [c \in {"work_values"} |-> 1],
     [c \in {} |-> 0]}

-----------------------------------------------------------------------------
(* scorer.py: Scorer.score_occupation *)

Category == SCORABLE_CATEGORIES[cat_idx]

HasRawItems_present(category) == category \in DOMAIN onet_data

\* onet_data.get(category, []) is non-empty.
HasRawItems(category) == category \in DOMAIN onet_data /\ onet_data[category] > 0

Init ==
    /\ input = [op |-> "score_occupation", args |-> <<>>]
    /\ output = None
    /\ pc = "loop"
    /\ onet_data \in OnetDataChoices
    /\ include_agentic \in BOOLEAN
    /\ cat_idx = 1
    /\ parsed = None
    /\ scored_items = <<>>
    /\ agentic_scores = <<>>
    /\ category_summaries = <<>>
    /\ all_agentic_scores = [n \in {} |-> None]
    /\ llm_calls = <<>>
    /\ raised = "None"
    /\ alert = None

\* score_occupation is left by an exception: nothing is returned.
Abort(exc) ==
    /\ raised' = exc
    /\ pc' = "raised"
    /\ UNCHANGED <<scored_items, agentic_scores, category_summaries,
                   all_agentic_scores, cat_idx, alert>>

\* if not raw_items: continue
SkipCategory ==
    /\ pc = "loop"
    /\ cat_idx <= Len(SCORABLE_CATEGORIES)
    /\ ~HasRawItems(Category)
    /\ cat_idx' = cat_idx + 1
    /\ UNCHANGED <<input, output, pc, onet_data, include_agentic, parsed,
                   scored_items, agentic_scores, category_summaries,
                   all_agentic_scores, llm_calls, raised, alert>>

\* Step 1: score_category_items -- one LLM call, its response parsed and
\* ingested record by record.
BaseScoring ==
    /\ pc = "loop"
    /\ cat_idx <= Len(SCORABLE_CATEGORIES)
    /\ HasRawItems(Category)
    /\ llm_calls' = Append(llm_calls, <<Category, "base">>)
    /\ \E response \in BaseResponses :
        /\ parsed' = response
        /\ IF ~response.array THEN Abort("ValueError")
           ELSE LET r == score_category_loop(response.elements, Category, <<>>)
                IN  IF r.exc # "None" THEN Abort(r.exc)
                    ELSE /\ scored_items' = r.val
                         /\ pc' = "scored"
                         /\ UNCHANGED <<agentic_scores, category_summaries,
                                        all_agentic_scores, cat_idx, raised, alert>>
    /\ UNCHANGED <<input, output, onet_data, include_agentic>>

RECURSIVE StoreAll(_, _)
StoreAll(store, scores) ==
    IF scores = <<>> THEN store
    ELSE LET ag == Head(scores)
         IN  StoreAll([n \in DOMAIN store \cup {ag.item_name} |->
                          IF n = ag.item_name THEN ag ELSE store[n]],
                      Tail(scores))

AgenticScoring_unguarded ==
    /\ pc = "scored"
    /\ include_agentic
    /\ llm_calls' = Append(llm_calls, <<Category, "agentic">>)
    /\ \E response \in AgenticResponses :
        /\ parsed' = response
        /\ IF ~response.array THEN Abort("ValueError")
           ELSE LET r == score_agentic_loop(response.elements, Category, <<>>)
                IN  IF r.exc # "None" THEN Abort(r.exc)
                    ELSE /\ agentic_scores' = r.val
                         /\ all_agentic_scores' = StoreAll(all_agentic_scores, r.val)
                         /\ pc' = "agentic_scored"
                         /\ UNCHANGED <<scored_items, category_summaries, cat_idx,
                                        raised, alert>>
    /\ UNCHANGED <<input, output, onet_data, include_agentic>>

\* Step 2, first half: score_agentic_impact and all_agentic_scores[name] = ag.
AgenticScoring ==
    /\ pc = "scored"
    /\ include_agentic
    /\ scored_items # <<>>
    /\ llm_calls' = Append(llm_calls, <<Category, "agentic">>)
    /\ \E response \in AgenticResponses :
        /\ parsed' = response
        /\ IF ~response.array THEN Abort("ValueError")
           ELSE LET r == score_agentic_loop(response.elements, Category, <<>>)
                IN  IF r.exc # "None" THEN Abort(r.exc)
                    ELSE /\ agentic_scores' = r.val
                         /\ all_agentic_scores' = StoreAll(all_agentic_scores, r.val)
                         /\ pc' = "agentic_scored"
                         /\ UNCHANGED <<scored_items, category_summaries, cat_idx,
                                        raised, alert>>
    /\ UNCHANGED <<input, output, onet_data, include_agentic>>

\* agentic_by_name = {a.item_name: a for a in agentic_scores}
AgenticByName(scores) == StoreAll([n \in {} |-> None], scores)

\* A slip that pairs base items and agentic scores by position.
AdjustItems_by_position ==
    /\ pc = "agentic_scored"
    /\ scored_items' =
           [i \in 1..Len(scored_items) |->
               IF i <= Len(agentic_scores)
               THEN apply_agentic_adjustment(scored_items[i], agentic_scores[i])
               ELSE scored_items[i]]
    /\ pc' = "adjusted"
    /\ UNCHANGED <<input, output, onet_data, include_agentic, cat_idx, parsed,
                   agentic_scores, category_summaries, all_agentic_scores,
                   llm_calls, raised, alert>>

\* Step 2, second half: each base item meets the agentic score of its name.
AdjustItems ==
    /\ pc = "agentic_scored"
    /\ LET agentic_by_name == AgenticByName(agentic_scores)
       IN  scored_items' =
               [i \in 1..Len(scored_items) |->
                   IF scored_items[i].item_name \in DOMAIN agentic_by_name
                   THEN apply_agentic_adjustment(
                            scored_items[i],
                            agentic_by_name[scored_items[i].item_name])
                   ELSE scored_items[i]]
    /\ pc' = "adjusted"
    /\ UNCHANGED <<input, output, onet_data, include_agentic, cat_idx, parsed,
                   agentic_scores, category_summaries, all_agentic_scores,
                   llm_calls, raised, alert>>

\* Step 3: the category's summary is appended and the loop moves on.
SummarizeCategory ==
    /\ \/ pc = "adjusted"
       \/ pc = "scored" /\ ~(include_agentic /\ scored_items # <<>>)
    /\ category_summaries' =
           Append(category_summaries, summarize_category(Category, scored_items))
    /\ cat_idx' = cat_idx + 1
    /\ pc' = "loop"
    /\ parsed' = None
    /\ scored_items' = <<>>
    /\ agentic_scores' = <<>>
    /\ UNCHANGED <<input, output, onet_data, include_agentic, all_agentic_scores,
                   llm_calls, raised, alert>>

\* Step 4: the alert is built and returned with the agentic mapping.
BuildAlert ==
    /\ pc = "loop"
    /\ cat_idx > Len(SCORABLE_CATEGORIES)
    /\ alert' = Some(build_automation_alert("00-0000.00", "Occupation",
                                            category_summaries))
    /\ pc' = "done"
    /\ UNCHANGED <<input, output, onet_data, include_agentic, cat_idx, parsed,
                   scored_items, agentic_scores, category_summaries,
                   all_agentic_scores, llm_calls, raised>>

Next ==
    \/ SkipCategory
    \/ BaseScoring
    \/ AgenticScoring
    \/ AdjustItems
    \/ SummarizeCategory
    \/ BuildAlert

Spec == Init /\ [][Next]_vars

-----------------------------------------------------------------------------
(* Claims about the pipeline *)

\* A base record with every required field, valid enum tags and values in
\* their declared ranges.
WellFormedBase(e) == e \in GoodBaseElements

\* The same for an agentic record.
WellFormedAgentic(e) == e \in TypedAgenticElements

ElementNames(elements) == [i \in 1..Len(elements) |-> elements[i].obj.item_name]

ItemNames(items) == [i \in 1..Len(items) |-> items[i].item_name]

\* C2: in score_category_items and score_agentic_impact a malformed element of
\* any kind -- a missing field, a wrong enum tag, a value out of range, an
\* element that is no record -- is skipped without raising, and every
\* well-formed element yields exactly one output record in the original order.
C2_MalformedSkippedOthersKept ==
    /\ pc = "raised" => ~parsed.array
    /\ pc = "scored" =>
           ItemNames(scored_items)
               = ElementNames(SelectSeq(parsed.elements, WellFormedBase))
    /\ pc = "agentic_scored" =>
           ItemNames(agentic_scores)
               = ElementNames(SelectSeq(parsed.elements, WellFormedAgentic))

RECURSIVE AllItems(_)
AllItems(summaries) ==
    IF summaries = <<>> THEN <<>>
    ELSE Head(summaries).items \o AllItems(Tail(summaries))

\* C4: every ScoredItem in any category summary of the alert score_occupation
\* returns has 0 <= time_saved_low_pct <= time_saved_high_pct <= 100.
C4_AlertItemsWithinRange ==
    pc = "done" =>
        \A i \in 1..Len(AllItems(alert.v.category_summaries)) :
            LET item == AllItems(alert.v.category_summaries)[i]
            IN  /\ 0 <= item.time_saved_low_pct
                /\ item.time_saved_low_pct <= item.time_saved_high_pct
                /\ item.time_saved_high_pct <= 1000

\* The workflow unit scores of a sequence of agentic scores, flattened.
RECURSIVE AllUnits(_)
AllUnits(scores) ==
    IF scores = <<>> THEN <<>>
    ELSE Head(scores).workflow_scores \o AllUnits(Tail(scores))

UnitsConsistent(units) ==
    \A i \in 1..Len(units) :
        units[i].net_gain_pct
            = units[i].execution_automation_pct - units[i].oversight_tax_pct

\* C21: every WorkflowUnitScore accepted by agentic ingestion, and so every
\* unit inside an AgenticImpactScore of the returned mapping, has
\* net_gain_pct = execution_automation_pct - oversight_tax_pct.
C21_NetGainIsEaMinusOt ==
    /\ pc = "agentic_scored" => UnitsConsistent(AllUnits(agentic_scores))
    /\ pc = "done" =>
           \A n \in DOMAIN all_agentic_scores :
               UnitsConsistent(all_agentic_scores[n].workflow_scores)

SummaryCategories(summaries) ==
    [i \in 1..Len(summaries) |-> summaries[i].category]

NonEmptyInOnetData(c) ==
    \E d \in DOMAIN onet_data : d = c /\ onet_data[d] >= 1

\* C22: the alert score_occupation returns has exactly one category summary
\* for each category of SCORABLE_CATEGORIES with a non-empty raw item list in
\* onet_data, in SCORABLE_CATEGORIES order, and none for a category that is
\* absent, empty or not scorable.
C22_OneSummaryPerCategoryWithItems ==
    pc = "done" =>
        SummaryCategories(alert.v.category_summaries)
            = SelectSeq(SCORABLE_CATEGORIES, NonEmptyInOnetData)

\* A returned alert for onet_data with tasks, skills and the unscorable
\* work_values: two summaries, tasks then skills.
C22_Witness ==
    /\ pc = "done"
    /\ DOMAIN onet_data = {"tasks", "skills", "work_values"}
    /\ SummaryCategories(alert.v.category_summaries) = <<"tasks", "skills">>

CallsOfKind(kind) ==
    LET IsKind(call) == call[2] = kind
    IN  [i \in 1..Len(SelectSeq(llm_calls, IsKind)) |->
            SelectSeq(llm_calls, IsKind)[i][1]]

\* The base call of the category whose agentic call is llm_calls[i] produced
\* at least one scored item: they are still in hand while the category is
\* being processed, and in the category's summary afterwards.
BaseYieldedItems(i) ==
    \/ /\ i = Len(llm_calls)
       /\ pc \in {"agentic_scored", "adjusted", "raised"}
       /\ scored_items # <<>>
    \/ \E k \in 1..Len(category_summaries) :
           /\ category_summaries[k].category = llm_calls[i][1]
           /\ category_summaries[k].item_count >= 1

\* C23: with include_agentic = False score_occupation makes exactly one model
\* call, the base call, per category that has raw items, makes no agentic
\* call and returns an empty agentic mapping; with include_agentic = True the
\* agentic call of a category comes only after that category's base call and
\* only if the base call yielded a scored item, so that a category gets at
\* most two calls.
C23_CallsPerCategory ==
    /\ ~include_agentic =>
           /\ CallsOfKind("agentic") = <<>>
           /\ DOMAIN all_agentic_scores = {}
    /\ pc = "done" =>
           CallsOfKind("base") = SelectSeq(SCORABLE_CATEGORIES, NonEmptyInOnetData)
    /\ \A i \in 1..Len(llm_calls) :
           llm_calls[i][2] = "agentic" =>
               /\ i > 1
               /\ llm_calls[i - 1] = <<llm_calls[i][1], "base">>
               /\ BaseYieldedItems(i)
    /\ \A i, j \in 1..Len(llm_calls) : llm_calls[i] = llm_calls[j] => i = j

\* Both halves happen: a run without the agentic layer that returns after two
\* base calls, and one with it where a category got its base call only (no
\* record survived ingestion) and another got both calls.
C23_WitnessBaseOnly ==
    /\ pc = "done"
    /\ ~include_agentic
    /\ llm_calls = <<<<"tasks", "base">>, <<"skills", "base">>>>

C23_Witness ==
    /\ pc = "done"
    /\ include_agentic
    /\ llm_calls = <<<<"tasks", "base">>, <<"skills", "base">>,
                     <<"skills", "agentic">>>>

SameNamed(item, scores) ==
    {k \in 1..Len(scores) : scores[k].item_name = item.item_name}

\* The adjustment step of a category: every base item comes out either as
\* one application of apply_agentic_adjustment to it and a same-named score
\* of this category's batch, or, when the batch has no such score, as it was.
AdjustedOnceBySameName ==
    (pc = "agentic_scored" /\ pc' = "adjusted") =>
        /\ Len(scored_items') = Len(scored_items)
        /\ \A i \in 1..Len(scored_items) :
               IF SameNamed(scored_items[i], agentic_scores) = {}
               THEN scored_items'[i] = scored_items[i]
               ELSE \E k \in SameNamed(scored_items[i], agentic_scores) :
                        scored_items'[i]
                            = apply_agentic_adjustment(scored_items[i],
                                                       agentic_scores[k])

\* The items in hand when a category is summarised are the summary's items.
SummaryTakesItemsAsTheyAre ==
    (pc \in {"scored", "adjusted"} /\ pc' = "loop") =>
        /\ Len(category_summaries') = Len(category_summaries) + 1
        /\ category_summaries'[Len(category_summaries')].items = scored_items

KeysAreItemNames ==
    \A n \in DOMAIN all_agentic_scores : all_agentic_scores[n].item_name = n

\* C26: with the agentic layer enabled each base ScoredItem passes through
\* apply_agentic_adjustment at most once, and only with an agentic score of
\* the same item_name from the same category's batch; a base item without a
\* same-named agentic score enters its category summary unchanged; and every
\* key of the returned mapping is the item_name of the score it maps to.
C26_AdjustedOnceBySameNamedScore ==
    /\ [][AdjustedOnceBySameName /\ SummaryTakesItemsAsTheyAre]_vars
    /\ []KeysAreItemNames

\* After the adjustment step: "Task B" (25.0 - 9.0 under its 25% ceiling) had
\* no same-named score in the batch and is as ingestion left it, next to an
\* adjusted "Task A"; the mapping holds the batch's score under its name.
C26_Witness ==
    /\ pc = "adjusted"
    /\ include_agentic
    /\ ItemNames(scored_items) = <<"Task B", "Task A">>
    /\ ItemNames(agentic_scores) = <<"Task A">>
    /\ scored_items[1].time_saved_high_pct = 90
    /\ scored_items[2].time_saved_high_pct
           = Max(640, agentic_scores[1].final_time_saved_high_pct)
    /\ agentic_scores[1].final_time_saved_high_pct > 640
    /\ DOMAIN all_agentic_scores = {"Task A"}

====
